---- MODULE Spec2Model ----
(***************************************************************************)
(* Optimistic-locking plugin for GORM (package optimistic).                *)
(*                                                                         *)
(* The model follows src/optimistic.go: the two create hooks, the three    *)
(* update hooks and the ORM steps between them (gorm:create, gorm:update). *)
(* Every observer p owns an in-memory model mem[p] and at most one         *)
(* statement stmt[p]; observers interleave at hook granularity and share   *)
(* the table rows.                                                         *)
(*                                                                         *)
(* Version values are naturals.  0 is the zero value of every version      *)
(* type (0, uuid.Nil, ulid.Zero, time.Time{}).  uuid.New() and             *)
(* ulid.MustNew(..., ulidEntropy) return a value never returned before     *)
(* (gen counts the values handed out); db.NowFunc() reads the clock now.   *)
(* Versions stay far below the width of uint64.                            *)
(***************************************************************************)
EXTENDS Integers, Sequences, FiniteSets, TLC

\* ------------------------------------------------------------------ bounds
MaxOps  == 2      \* statements (create / update) issued in one behaviour
MaxVal  == 1      \* data columns range over 0..MaxVal, 0 is the zero value
MaxRows == 2      \* rows the table can hold
MaxTick == 2      \* readings of the clock

Procs == {"m", "mp"}          \* the observers (goroutines holding a model)
Vals  == 0..MaxVal
Ids   == 1..MaxRows
VerIn == 0..(MaxVal + 1)      \* version values a caller may write in memory

\* ------------------------------------------------------------------ errors
ErrOptimisticLock     == "optimistic lock conflict"
ErrRecordNotFound     == "record not found"
ErrMissingWhereClause == "WHERE conditions required"
ErrDriver             == "context canceled"
ErrBusy               == "database is locked"
ErrNoColumn           == "no such column"

\* ------------------------------------------------------------------ schema
\* The model types of the test-suite.  tagged: a field carries the version
\* tag; ftype: kind of the field's Go type; param: the tag's value;
\* tyname: the type's name; autoUpdateTime: the model has the column
\* activation, tagged autoUpdateTime.
TestModel ==
    [name |-> "TestModel", tagged |-> TRUE, ftype |-> "uint64",
     param |-> "", tyname |-> "uint64",
     autoUpdateTime |-> FALSE]
TestModelNoVersion ==
    [name |-> "TestModelNoVersion", tagged |-> FALSE, ftype |-> "none",
     param |-> "", tyname |-> "",
     autoUpdateTime |-> FALSE]
TestModelUUIDVersion ==
    [name |-> "TestModelUUIDVersion", tagged |-> TRUE, ftype |-> "bytes16",
     param |-> "uuid", tyname |-> "UUID",
     autoUpdateTime |-> FALSE]
TestModelULIDVersion ==
    [name |-> "TestModelULIDVersion", tagged |-> TRUE, ftype |-> "bytes16",
     param |-> "", tyname |-> "ULID",
     autoUpdateTime |-> FALSE]
TestModelTimeVersion ==
    [name |-> "TestModelTimeVersion", tagged |-> TRUE, ftype |-> "time",
     param |-> "", tyname |-> "Time",
     autoUpdateTime |-> FALSE]

TestModelWithTime ==
    [name |-> "TestModelWithTime", tagged |-> TRUE, ftype |-> "uint64",
     param |-> "", tyname |-> "uint64",
     autoUpdateTime |-> TRUE]

TestOracleModelULIDVersion ==
    [name |-> "TestOracleModelULIDVersion", tagged |-> TRUE,
     ftype |-> "bytes16", param |-> "ulid", tyname |-> "ULID",
     autoUpdateTime |-> FALSE]

\* Model types a caller may declare beside those of the test-suite: a
\* version field of a type the plugin has no generator for, and 16-byte
\* version fields whose tag parameter and type name point to different
\* generators or to none.
ModelStringVersion ==
    [name |-> "ModelStringVersion", tagged |-> TRUE, ftype |-> "string",
     param |-> "", tyname |-> "string",
     autoUpdateTime |-> FALSE]
ModelUUIDTagOnULID ==
    [name |-> "ModelUUIDTagOnULID", tagged |-> TRUE, ftype |-> "bytes16",
     param |-> "uuid", tyname |-> "ULID",
     autoUpdateTime |-> FALSE]
ModelULIDTagOnUUID ==
    [name |-> "ModelULIDTagOnUUID", tagged |-> TRUE, ftype |-> "bytes16",
     param |-> "ULID", tyname |-> "UUID",
     autoUpdateTime |-> FALSE]
ModelUlidKeyVersion ==
    [name |-> "ModelUlidKeyVersion", tagged |-> TRUE, ftype |-> "bytes16",
     param |-> "", tyname |-> "UlidKey",
     autoUpdateTime |-> FALSE]
ModelTokenVersion ==
    [name |-> "ModelTokenVersion", tagged |-> TRUE, ftype |-> "bytes16",
     param |-> "", tyname |-> "Token",
     autoUpdateTime |-> FALSE]

\* Integer version fields of other types than uint64.
ModelInt64Version ==
    [name |-> "ModelInt64Version", tagged |-> TRUE, ftype |-> "int64",
     param |-> "", tyname |-> "int64",
     autoUpdateTime |-> FALSE]
ModelUint32Version ==
    [name |-> "ModelUint32Version", tagged |-> TRUE, ftype |-> "uint32",
     param |-> "", tyname |-> "uint32",
     autoUpdateTime |-> FALSE]

Schemas == {TestModel, TestModelNoVersion, TestModelUUIDVersion,
            TestModelULIDVersion, TestModelTimeVersion, TestModelWithTime}

PrimaryKey   == "id"
VersionCol   == "version"
AutoTimeCol  == "activation"
Updatable(c) == c \in {"activation", "description", "code", "version"}

\* A model and a row carry the field activation whatever the model type;
\* it stays zero, and is no column, for a type that does not declare it.
ZeroModel == [id |-> 0, activation |-> 0, description |-> 0, code |-> 0,
              version |-> 0]
NoRow     == [activation |-> 0, description |-> 0, code |-> 0, version |-> 0,
              live |-> FALSE]

\* ------------------------------------------------------------------ state
VARIABLES
    schema,     \* the model type in use
    dialect,    \* db.Dialector.Name()
    disableReturning,  \* Config.disableReturning
    rows,       \* the table: id -> row
    mem,        \* observer -> its in-memory model(s)
    stmt,       \* observer -> its statement
    gen,        \* UUIDs / ULIDs generated so far
    now,        \* the clock read by db.NowFunc()
    ops,        \* statements issued so far
    tally       \* id -> updates of the row the callers saw succeed

vars == <<schema, dialect, disableReturning, rows, mem, stmt, gen, now, ops,
          tally>>

\* Columns of the model type in use, in schema order; id is the primary key
\* and is tagged <-:create.
SchemaFields ==
    IF schema.autoUpdateTime
    THEN <<"id", "activation", "description", "code", "version">>
    ELSE <<"id", "description", "code", "version">>
DBNames == {SchemaFields[k] : k \in 1..Len(SchemaFields)}

\* Scratch values (db.InstanceSet): unset, a value, or the SQL expression
\* "version + 1".
Unset   == [tag |-> "unset", v |-> 0]
Val(x)  == [tag |-> "val", v |-> x]
ExprInc == [tag |-> "expr", v |-> 0]

\* A statement.  pc is the position in the callback chain; dryRun, unscoped,
\* form (struct / map / set: the caller attached a SET clause), dest (the
\* map's entries), selects, conflict (the Conflict clause's handler) are what
\* the caller chose; hasSet/set, where, returning, omits are the clauses;
\* from / to are the scratch keys; err is db.Error, affected db.RowsAffected.
\* sub (the model as submitted), pre (the table when the statement was
\* executed), ran (the SQL was sent), wrote (the row as an UPDATE left it,
\* if it matched), called (the handler was invoked) record history for the
\* properties.  hval is the value the handler of the Conflict clause writes
\* when it merges.  retry marks the statement the Resolver issues for a
\* resolved object: by is the handler that returned it, orig the model the
\* caller had submitted, seen the row the Resolver's reload read.  entries
\* counts the runs of the before-update hook on the statement, first is the
\* statement as the first run left it.  entropy tells whether the hook is
\* inside the ULID entropy generator, read is the generator's state as the
\* hook read it there.  drew is the generator the hook took a 16-byte
\* version from, hooked tells that the model's AfterCreate method has run.
\* chain holds the expression of the Conflict clause when it was merged from
\* several, hs the handlers it was merged from, calls the handler calls the
\* Resolver's invocation made.
IdleStmt ==
    [pc |-> "idle", op |-> "none", dryRun |-> FALSE, unscoped |-> FALSE,
     form |-> "struct", slice |-> FALSE, dest |-> <<>>, selects |-> {},
     omits |-> {}, hasSet |-> FALSE, set |-> <<>>, where |-> <<>>,
     returning |-> FALSE, from |-> Unset, to |-> Unset, err |-> {},
     affected |-> 0, conflict |-> "none", hval |-> 0, sub |-> <<>>,
     pre |-> <<>>, ran |-> FALSE, wrote |-> <<>>, called |-> FALSE,
     retry |-> FALSE, by |-> "none", orig |-> <<>>, seen |-> <<>>,
     entries |-> 0, first |-> <<>>, entropy |-> "out", read |-> 0,
     drew |-> "none", hooked |-> FALSE, chain |-> <<>>, hs |-> <<>>,
     calls |-> <<>>]

\* ------------------------------------------------------------------ helpers
\* Plugin.Initialize: RETURNING is used unless the dialect is mysql or the
\* option disables it.
\* supportsReturning decided by the dialect alone.
supportsReturningByDialect == dialect # "mysql"

supportsReturning == (dialect # "mysql") /\ ~disableReturning

\* findVersionField that takes the version column of any model.
findVersionFieldAny(sch) == TRUE

\* Plugin.findVersionField: the schema has a field with the version tag.
findVersionField(sch) == sch.tagged

isNumericKind(k) ==
    k \in {"int", "int8", "int16", "int32", "int64",
           "uint", "uint8", "uint16", "uint32", "uint64"}

ToLower(s) ==
    CASE s = "ULID" -> "ulid"
      [] s = "UUID" -> "uuid"
      [] s = "Time" -> "time"
      [] s = "UlidKey" -> "ulidkey"
      [] s = "Token" -> "token"
      [] OTHER -> s

ContainsUlid(s) == s \in {"ulid", "ulidkey"}

\* strings.EqualFold(f.TagSettings[p.tagName], s)
paramIs(sch, s) == ToLower(sch.param) = ToLower(s)

\* The generator chosen for a 16-byte version field.
IsUlid(sch) == paramIs(sch, "ulid") \/ ContainsUlid(ToLower(sch.tyname))

\* The generator setInitialVersion and bumpVersion use for a 16-byte field.
Generator(sch) == IF IsUlid(sch) THEN "ulid" ELSE "uuid"

\* The n-th value uuid.New() / ulid.MustNew() returns: not zero, not
\* returned before, and not a value a caller writes by hand (VerIn).
Fresh(n) == MaxVal + 1 + n

\* What the version type's generator needs: 1 for a generated value.
Draws(sch) == IF sch.tagged /\ sch.ftype = "bytes16" THEN 1 ELSE 0

\* InitialVersion without the seeding of integers: the caller's value stays.
InitialVersionKeepsInteger(sch, old, k) ==
    CASE sch.ftype = "bytes16"    -> Fresh(gen + k)
      [] sch.ftype = "time"       -> now
      [] OTHER                    -> old

\* setInitialVersion: the value written into element number k of the batch.
InitialVersion(sch, old, k) ==
    CASE isNumericKind(sch.ftype) -> 1
      [] sch.ftype = "bytes16"    -> Fresh(gen + k)
      [] sch.ftype = "time"       -> now
      [] OTHER                    -> old

setInitialVersion(sch, elem, k) ==
    [elem EXCEPT !.version = InitialVersion(sch, elem.version, k)]

\* ------------------------------------------------------------------ create
\* Rows reserved by INSERTs that have not run yet.
RECURSIVE Reserved(_)
Reserved(ps) ==
    IF ps = {} THEN 0
    ELSE LET q == CHOOSE q \in ps : TRUE
         IN (IF stmt[q].op = "create" /\ stmt[q].pc \in {"before", "exec"}
             THEN Len(mem[q]) ELSE 0) + Reserved(ps \ {q})

\* db.Create(&model) / db.Create(&[]model{...}): the caller's model carries
\* whatever version the caller put in it.
BeginCreate(p, vers, modes, cap) ==
    /\ stmt[p].pc = "idle"
    /\ ops < cap
    /\ \E n \in 1..2, vv \in vers, mode \in modes :
        /\ Cardinality({i \in Ids : rows[i].live}) + Reserved(Procs) + n
              <= MaxRows
        /\ LET model == [ZeroModel EXCEPT !.description = MaxVal,
                                         !.version = vv]
               dest  == [i \in 1..n |-> model]
           IN /\ mem'  = [mem EXCEPT ![p] = dest]
              /\ stmt' = [stmt EXCEPT ![p] =
                    [IdleStmt EXCEPT !.pc = "before", !.op = "create",
                                     !.dryRun = (mode = "dryRun"),
                                     !.unscoped = (mode = "unscoped"),
                                     !.slice = (n > 1), !.sub = dest]]
    /\ ops' = ops + 1
    /\ UNCHANGED <<schema, dialect, disableReturning, tally, rows, gen, now>>

\* createGuard without the test for unscoped mode.
createGuardDryRun(s) ==
    /\ ~s.dryRun
    /\ findVersionField(schema)

\* The guards of Plugin.initializeVersion and Plugin.verifyCreate.
createGuard(s) ==
    /\ ~(s.dryRun \/ s.unscoped)
    /\ findVersionField(schema)

\* Plugin.initializeVersion (before gorm:create)
initializeVersion(p) ==
    /\ stmt[p].pc = "before"
    /\ stmt[p].op = "create"
    /\ LET s    == stmt[p]
           skip == ~createGuard(s)
       IN /\ mem' = [mem EXCEPT ![p] =
                 IF skip THEN @
                 ELSE [i \in 1..Len(@) |-> setInitialVersion(schema, @[i], i)]]
          /\ gen' = IF skip THEN gen ELSE gen + Draws(schema) * Len(mem[p])
          /\ stmt' = [stmt EXCEPT ![p].pc = "exec", ![p].entropy = "out",
                                  ![p].drew = IF ~skip /\ Draws(schema) > 0
                                              THEN Generator(schema) ELSE @]
    /\ UNCHANGED <<schema, dialect, disableReturning, tally, rows, now, ops>>

\* The ids an auto-increment insert of n rows hands out.
FreeIds == {i \in Ids : ~rows[i].live}
RECURSIVE NewIds(_, _)
NewIds(free, n) ==
    IF n = 0 THEN <<>>
    ELSE LET i == CHOOSE x \in free : \A y \in free : x <= y
         IN <<i>> \o NewIds(free \ {i}, n - 1)

\* gorm's ConvertToCreateValues: the values of the INSERT.  A zero field
\* tagged autoUpdateTime gets the clock's reading, in the model too.
ConvertToCreateValues(ms) ==
    [k \in 1..Len(ms) |->
        IF schema.autoUpdateTime /\ ms[k][AutoTimeCol] = 0
        THEN [ms[k] EXCEPT ![AutoTimeCol] = now]
        ELSE ms[k]]

\* gorm:create: the INSERT.  Every column is written from the model and the
\* generated primary key is written back to it.
ExecCreate(p) ==
    /\ stmt[p].pc = "exec"
    /\ stmt[p].op = "create"
    /\ LET s   == stmt[p]
           n   == Len(mem[p])
           ids == NewIds(FreeIds, n)
           created == ConvertToCreateValues(mem[p])
       IN IF s.dryRun
          THEN /\ stmt' = [stmt EXCEPT ![p].pc = "verify",
                                       ![p].pre = rows]
               /\ mem' = [mem EXCEPT ![p] = created]
               /\ UNCHANGED rows
          ELSE /\ rows' = [i \in Ids |->
                     IF \E k \in 1..n : ids[k] = i
                     THEN LET k == CHOOSE k \in 1..n : ids[k] = i
                          IN [activation |-> created[k].activation,
                              description |-> created[k].description,
                              code |-> created[k].code,
                              version |-> created[k].version, live |-> TRUE]
                     ELSE rows[i]]
               /\ mem' = [mem EXCEPT ![p] =
                     [k \in 1..n |-> [created[k] EXCEPT !.id = ids[k]]]]
               /\ stmt' = [stmt EXCEPT ![p].pc = "verify",
                                       ![p].pre = rows,
                                       ![p].ran = TRUE,
                                       ![p].affected = n]
    /\ UNCHANGED <<schema, dialect, disableReturning, tally, gen, now, ops>>

\* gorm:after_create: the model's AfterCreate method, if it has one, runs
\* before optimistic:verify_create, once for every element of the batch and
\* in dry-run mode too; each run may write the element's version field or
\* leave it.
AfterCreateHook(p) ==
    /\ stmt[p].pc = "verify"
    /\ stmt[p].op = "create"
    /\ ~stmt[p].hooked
    /\ \E vs \in [1..Len(mem[p]) -> VerIn \cup {-1}] :
           mem' = [mem EXCEPT ![p] =
                      [k \in 1..Len(@) |->
                          [@[k] EXCEPT !.version = IF vs[k] = -1 THEN @
                                                  ELSE vs[k]]]]
    /\ stmt' = [stmt EXCEPT ![p].hooked = TRUE]
    /\ UNCHANGED <<schema, dialect, disableReturning, tally,
                   rows, gen, now, ops>>

\* checkInitialVersionField that tests for the zero value only.
checkInitialVersionFieldZeroOnly(sch, elem) ==
    \/ elem.version = 0
    \/ /\ ~isNumericKind(sch.ftype)
       /\ sch.ftype # "bytes16"
       /\ sch.ftype # "time"

\* checkInitialVersionField: does this element fail the check?
checkInitialVersionField(sch, elem) ==
    \/ elem.version = 0
    \/ /\ isNumericKind(sch.ftype)
       /\ elem.version # 1
    \/ /\ ~isNumericKind(sch.ftype)
       /\ sch.ftype # "bytes16"
       /\ sch.ftype # "time"

\* Plugin.verifyCreate (after gorm:after_create).  For a field of a signed
\* integer kind rv.Uint() panics at the first element whose version is not
\* zero: the statement ends there (pc "panic"), with the errors of the
\* elements before it.
verifyCreate(p) ==
    /\ stmt[p].pc = "verify"
    /\ stmt[p].op = "create"
    /\ LET s    == stmt[p]
           skip == ~createGuard(s)
           set  == {i \in 1..Len(mem[p]) : mem[p][i].version # 0}
           stop == IF /\ ~skip
                      /\ schema.ftype \in {"int", "int8", "int16", "int32",
                                            "int64"}
                      /\ set # {}
                   THEN CHOOSE i \in set : \A j \in set : i <= j
                   ELSE Len(mem[p]) + 1
           bad  == \E i \in 1..Len(mem[p]) :
                       /\ i < stop
                       /\ checkInitialVersionField(schema, mem[p][i])
       IN stmt' = [stmt EXCEPT ![p].pc = IF stop <= Len(mem[p])
                                         THEN "panic" ELSE "done",
                               ![p].err = IF ~skip /\ bad
                                          THEN @ \cup {ErrOptimisticLock}
                                          ELSE @]
    /\ UNCHANGED <<schema, dialect, disableReturning, tally,
                   rows, mem, gen, now, ops>>

\* ------------------------------------------------------------------ update
\* What a caller may ask of an update.
PlainUpdate ==
    [mode |-> "scoped", form |-> "struct", selects |-> {}, conflict |-> "none"]
DryRunUpdate   == [PlainUpdate EXCEPT !.mode = "dryRun"]
UnscopedUpdate == [PlainUpdate EXCEPT !.mode = "unscoped"]
MapUpdate      == [PlainUpdate EXCEPT !.form = "map"]
SetUpdate      == [PlainUpdate EXCEPT !.form = "set"]
CancelUpdate   == [PlainUpdate EXCEPT !.conflict = "nil"]
AcceptUpdate   == [PlainUpdate EXCEPT !.conflict = "current"]
DryRunClause   == [DryRunUpdate EXCEPT !.conflict = "current"]
UnscopedClause == [UnscopedUpdate EXCEPT !.conflict = "current"]

CoreOptions == {PlainUpdate, DryRunUpdate, UnscopedUpdate, MapUpdate,
                SetUpdate, CancelUpdate, AcceptUpdate, DryRunClause,
                UnscopedClause}
GatedOptions == {PlainUpdate, MapUpdate, SetUpdate}
Modes == {"scoped", "dryRun", "unscoped"}

\* db.Updates(&model), db.Model(&model).Updates(map), or
\* db.Model(&model).Where("id = ?", id).Clauses(clause.Set{...}).Updates(..):
\* the caller first edits its copy (column description, and possibly the
\* version); the copy holds the activation time it was loaded with, or none
\* (a struct the caller filled by hand).
BeginUpdate(p, opts, vers, cap) ==
    /\ stmt[p].pc = "idle"
    /\ ops < cap
    /\ \E i \in 1..Len(mem[p]), o \in opts, dv \in Vals :
       \E vv \in vers \cup {mem[p][i].version},
          av \in {0, mem[p][i].activation} :
        /\ mem[p][i].id # 0
        /\ LET model == IF o.form = "struct"
                        THEN [mem[p][i] EXCEPT !.description = dv,
                                               !.version = vv,
                                               !.activation = av]
                        ELSE [mem[p][i] EXCEPT !.version = vv]
               asg   == <<[col |-> "description", val |-> dv, expr |-> FALSE]>>
           IN /\ mem'  = [mem EXCEPT ![p] = <<model>>]
              /\ stmt' = [stmt EXCEPT ![p] =
                    [IdleStmt EXCEPT !.pc = "before", !.op = "update",
                                     !.dryRun = (o.mode = "dryRun"),
                                     !.unscoped = (o.mode = "unscoped"),
                                     !.form = o.form,
                                     !.dest = IF o.form = "map" THEN asg
                                              ELSE <<>>,
                                     !.hasSet = (o.form = "set"),
                                     !.set = IF o.form = "set" THEN asg
                                             ELSE <<>>,
                                     !.where = IF o.form = "set"
                                               THEN <<[kind |-> "expr",
                                                       col |-> PrimaryKey,
                                                       val |-> model.id]>>
                                               ELSE <<>>,
                                     !.selects = o.selects,
                                     !.conflict = o.conflict,
                                     !.sub = <<model>>]]
    /\ ops' = ops + 1
    /\ UNCHANGED <<schema, dialect, disableReturning, tally, rows, gen, now>>

\* db.Model(&Model{}).Where("description = ?", w).Update("description", dv):
\* a mass update, the model instance carries a zero primary key.
BeginMassUpdate(p, cap) ==
    /\ stmt[p].pc = "idle"
    /\ ops < cap
    /\ \E dv \in Vals, w \in Vals, mode \in {"scoped", "unscoped"} :
        /\ mem'  = [mem EXCEPT ![p] = <<ZeroModel>>]
        /\ stmt' = [stmt EXCEPT ![p] =
              [IdleStmt EXCEPT !.pc = "before", !.op = "update",
                               !.unscoped = (mode = "unscoped"),
                               !.form = "map",
                               !.dest = <<[col |-> "description", val |-> dv,
                                           expr |-> FALSE]>>,
                               !.where = <<[kind |-> "expr",
                                            col |-> "description",
                                            val |-> w]>>,
                               !.sub = <<ZeroModel>>]]
    /\ ops' = ops + 1
    /\ UNCHANGED <<schema, dialect, disableReturning, tally, rows, gen, now>>

\* NamingStrategy.ColumnName("", name)
ColumnName(c) ==
    CASE c = "Description" -> "description"
      [] c = "Activation" -> "activation"
      [] c = "Code" -> "code"
      [] c = "Version" -> "version"
      [] c = "ID" -> "id"
      [] OTHER -> c

\* isTargetedModelUpdate without the test of the primary key.
isTargetedAnyStruct(s, ms) ==
    IF s.slice THEN Len(ms) > 0 ELSE TRUE

isTargetedModelUpdate(s, ms) ==
    IF s.slice THEN Len(ms) > 0 ELSE ms[1].id # 0

\* Statement.SelectAndOmitColumns(false, true): sel, the columns mapped to
\* true; known, the columns with an entry; restricted.
Expand(cols) == IF "*" \in cols THEN DBNames ELSE cols
NonUpdatable == {c \in DBNames : ~Updatable(c)}
\* SelectAndOmitColumns that does not read the caller's selection.
SelectAndOmitNothing(s) ==
    [sel        |-> {},
     known      |-> Expand(s.omits) \cup NonUpdatable,
     restricted |-> FALSE]

SelectAndOmitColumns(s) ==
    [sel        |-> (Expand(s.selects) \ Expand(s.omits)) \ NonUpdatable,
     known      |-> Expand(s.selects) \cup Expand(s.omits) \cup NonUpdatable,
     restricted |-> ~("*" \in s.selects /\ "*" \notin s.omits)
                    /\ s.selects # {}]

Assign(c, v) == [col |-> c, val |-> v, expr |-> FALSE]

\* collectAssignments keeping the version entry of a map.
collectAssignmentsVersion(s, m) ==
    IF s.form = "map"
    THEN LET keep(en) == /\ ColumnName(en.col) \in DBNames
                         /\ Updatable(ColumnName(en.col))
             es == SelectSeq(s.dest, keep)
         IN [i \in 1..Len(es) |-> Assign(ColumnName(es[i].col), es[i].val)]
    ELSE LET so == SelectAndOmitColumns(s)
             keep(c) == /\ Updatable(c)
                        /\ c # PrimaryKey
                        /\ ColumnName(c) # VersionCol
                        /\ IF so.restricted
                           THEN ColumnName(c) \in so.sel
                           ELSE ~(m[c] = 0 /\ ColumnName(c) \notin so.sel)
             fs == SelectSeq(SchemaFields, keep)
         IN [i \in 1..Len(fs) |-> Assign(fs[i], m[fs[i]])]

\* Plugin.collectAssignments
collectAssignments(s, m) ==
    IF s.form = "map"
    THEN LET keep(en) == /\ ColumnName(en.col) # VersionCol
                         /\ ColumnName(en.col) \in DBNames
                         /\ Updatable(ColumnName(en.col))
             es == SelectSeq(s.dest, keep)
         IN [i \in 1..Len(es) |-> Assign(ColumnName(es[i].col), es[i].val)]
    ELSE LET so == SelectAndOmitColumns(s)
             keep(c) == /\ Updatable(c)
                        /\ c # PrimaryKey
                        /\ ColumnName(c) # VersionCol
                        /\ IF so.restricted
                           THEN ColumnName(c) \in so.sel
                           ELSE ~(m[c] = 0 /\ ColumnName(c) \notin so.sel)
             fs == SelectSeq(SchemaFields, keep)
         IN [i \in 1..Len(fs) |-> Assign(fs[i], m[fs[i]])]

\* The value bumpVersion assigns, by the version field's type.
bumpValue(sch) ==
    CASE isNumericKind(sch.ftype) -> ExprInc
      [] sch.ftype = "bytes16"    -> Val(Fresh(gen + 1))
      [] sch.ftype = "time"       -> Val(now)
      [] OTHER                    -> Unset

\* Plugin.bumpVersion: the SET clause with the bump appended and the
\* to-version recorded.
bumpVersion(s, ms, set) ==
    LET bv == bumpValue(schema)
    IN IF ~isTargetedModelUpdate(s, ms) \/ bv = Unset
       THEN [set |-> set, to |-> s.to]
       ELSE [set |-> Append(set, [col |-> ColumnName(VersionCol),
                                  val |-> bv.v, expr |-> bv.tag = "expr"]),
             to  |-> bv]

\* eqColumnName
eqColumnName(expr) ==
    IF expr.kind = "eq" THEN ColumnName(expr.col) ELSE ""

Eq(c, v) == [kind |-> "eq", col |-> c, val |-> v]

\* injectWhereVersion without the predicate on the version column.
injectWhereNoVersion(s, ms, oldVal) ==
    IF ~isTargetedModelUpdate(s, ms) THEN s
    ELSE LET hasPK == \E k \in 1..Len(s.where) :
                          /\ s.where[k].kind = "eq"
                          /\ eqColumnName(s.where[k]) = ColumnName(PrimaryKey)
             pk    == IF hasPK THEN <<>>
                      ELSE <<Eq(PrimaryKey, ms[1][PrimaryKey])>>
         IN [s EXCEPT !.where = @ \o pk,
                      !.returning = @ \/ supportsReturning]

\* injectWhereVersion adding the primary key whatever the caller supplied.
injectWhereAlwaysPK(s, ms, oldVal) ==
    IF ~isTargetedModelUpdate(s, ms) THEN s
    ELSE [s EXCEPT !.where = @ \o <<Eq(PrimaryKey, ms[1][PrimaryKey]),
                                    Eq(VersionCol, oldVal)>>,
                   !.returning = @ \/ supportsReturning]

\* Plugin.injectWhereVersion
injectWhereVersion(s, ms, oldVal) ==
    IF ~isTargetedModelUpdate(s, ms) THEN s
    ELSE LET hasPK == \E k \in 1..Len(s.where) :
                          /\ s.where[k].kind = "eq"
                          /\ eqColumnName(s.where[k]) = ColumnName(PrimaryKey)
             pk    == IF hasPK THEN <<>>
                      ELSE <<Eq(PrimaryKey, ms[1][PrimaryKey])>>
         IN [s EXCEPT !.where = @ \o pk \o <<Eq(VersionCol, oldVal)>>,
                      !.returning = @ \/ supportsReturning]

\* rewriteUpdate without the return on an empty assignment set.
rewriteUpdateNoReturn(s, ms) ==
    LET s1  == [s EXCEPT !.from = Val(ms[1].version)]
        set == IF s1.hasSet THEN s1.set ELSE collectAssignments(s1, ms[1])
        b   == bumpVersion(s1, ms, set)
    IN injectWhereVersion(
           [s1 EXCEPT !.hasSet = TRUE,
                      !.set = IF s1.hasSet THEN @ ELSE b.set,
                      !.to = b.to],
           ms, ms[1].version)

\* The classification at the head of Plugin.modifyUpdate: an update that is
\* not targeted is returned from at once, a targeted one goes on.
Classify(p) ==
    /\ stmt[p].pc = "before"
    /\ stmt[p].op = "update"
    /\ stmt' = [stmt EXCEPT ![p].pc =
                    IF isTargetedModelUpdate(stmt[p], mem[p])
                    THEN "exec" ELSE "done"]
    /\ UNCHANGED <<schema, dialect, disableReturning, tally,
                   rows, mem, gen, now, ops>>

\* The body of Plugin.modifyUpdate once its guards have passed.
rewriteUpdate(s, ms) ==
    LET s1 == [s EXCEPT !.from = Val(ms[1].version)]
    IN IF s1.hasSet
       THEN \* the bumped copy of the clause is not stored back
            LET b == bumpVersion(s1, ms, s1.set)
            IN injectWhereVersion([s1 EXCEPT !.to = b.to], ms, ms[1].version)
       ELSE LET set == collectAssignments(s1, ms[1])
            IN IF Len(set) = 0
               THEN [s1 EXCEPT !.omits = @ \cup {VersionCol}]
               ELSE LET b == bumpVersion(s1, ms, set)
                    IN injectWhereVersion(
                           [s1 EXCEPT !.hasSet = TRUE, !.set = b.set,
                                      !.to = b.to],
                           ms, ms[1].version)

\* rewriteGuard without the test for unscoped mode.
rewriteGuardUnscoped(s, ms) ==
    /\ ~s.dryRun
    /\ isTargetedModelUpdate(s, ms)
    /\ findVersionField(schema)

\* rewriteGuard without the test for dry-run.
rewriteGuardDryRun(s, ms) ==
    /\ ~s.unscoped
    /\ isTargetedModelUpdate(s, ms)
    /\ findVersionField(schema)

\* The guards of Plugin.modifyUpdate.
rewriteGuard(s, ms) ==
    /\ ~(s.dryRun \/ s.unscoped)
    /\ isTargetedModelUpdate(s, ms)
    /\ findVersionField(schema)

\* Plugin.modifyUpdate (before gorm:update)
modifyUpdate(p) ==
    /\ stmt[p].pc = "before"
    /\ stmt[p].op = "update"
    /\ LET s  == stmt[p]
           s2 == IF rewriteGuard(s, mem[p]) THEN rewriteUpdate(s, mem[p])
                 ELSE s
       IN /\ stmt' = [stmt EXCEPT ![p] =
                         [s2 EXCEPT !.pc = "exec",
                                    !.entries = @ + 1,
                                    !.entropy = "out",
                                    !.drew = IF /\ s2.to # s.to
                                                /\ schema.ftype = "bytes16"
                                             THEN Generator(schema) ELSE @]]
          /\ gen' = IF s2.to # s.to /\ schema.ftype = "bytes16"
                    THEN gen + 1 ELSE gen
    /\ UNCHANGED <<schema, dialect, disableReturning, tally,
                   rows, mem, now, ops>>

\* The clauses and scratch keys the Rewriter works on.
Rewritten(s) ==
    [hasSet |-> s.hasSet, set |-> s.set, where |-> s.where,
     omits |-> s.omits, returning |-> s.returning,
     from |-> s.from, to |-> s.to]

\* Plugin.modifyUpdate entered once more on a statement it has already
\* rewritten, before gorm:update runs: the callback has no state of its own,
\* it sees the statement with the clauses and scratch keys of the first run.
modifyUpdateAgain(p) ==
    /\ stmt[p].pc = "exec"
    /\ stmt[p].op = "update"
    /\ stmt[p].entries = 1
    /\ LET s  == stmt[p]
           s2 == IF rewriteGuard(s, mem[p]) THEN rewriteUpdate(s, mem[p])
                 ELSE s
       IN /\ stmt' = [stmt EXCEPT ![p] =
                         [s2 EXCEPT !.entries = 2,
                                    !.first = <<Rewritten(s)>>]]
          /\ gen' = IF s2.to # s.to /\ schema.ftype = "bytes16"
                    THEN gen + 1 ELSE gen
    /\ UNCHANGED <<schema, dialect, disableReturning, tally,
                   rows, mem, now, ops>>

\* Schema.LookUpField: the column of a key that names a column or a field,
\* "" for a key the schema does not know.
LookUpField(k) == IF ColumnName(k) \in DBNames THEN ColumnName(k) ELSE ""

\* Statement.SkipHooks: set on the session the Resolver retries in
\* (Session{NewDB: true, SkipHooks: true}), and on no statement of a caller.
SkipHooks(s) == s.retry

\* gorm's ConvertToAssignments: the SET clause the ORM builds itself when the
\* statement carries none.  Unless the statement skips hooks, a field
\* tagged autoUpdateTime is assigned the clock's reading: in struct form in
\* place of the field's own value, zero or not, and also under a restricted
\* selection that does not name the field; in map form after the map's
\* entries, when the map has no entry for the field.
ConvertToAssignments(s, m) ==
    LET so == SelectAndOmitColumns(s)
        pass(c) == \/ c \in so.known /\ c \in so.sel
                   \/ c \notin so.known /\ ~so.restricted
        auto(c) == /\ ~SkipHooks(s)
                   /\ schema.autoUpdateTime
                   /\ c = AutoTimeCol
    IN IF s.form = "map"
       THEN \* a key the schema knows is written under its column name, any
            \* other key as it stands
            LET name(en) == IF LookUpField(en.col) # "" THEN LookUpField(en.col)
                            ELSE en.col
                keep(en) == pass(name(en))
                es == SelectSeq(s.dest, keep)
                given(c) == \E k \in 1..Len(s.dest) : name(s.dest[k]) = c
                stamp(c) == /\ auto(c)
                            /\ ~given(c)
                            /\ (c \notin so.known \/ c \in so.sel)
                ts == SelectSeq(SchemaFields, stamp)
            IN [i \in 1..Len(es) |-> Assign(name(es[i]), es[i].val)]
               \o [i \in 1..Len(ts) |-> Assign(ts[i], now)]
       ELSE LET keep(c) == /\ c # PrimaryKey
                           /\ pass(c) \/ (c \notin so.known /\ auto(c))
                           /\ (c \in so.known \/ m[c] # 0 \/ auto(c))
                           /\ Updatable(c)
                fs == SelectSeq(SchemaFields, keep)
            IN [i \in 1..Len(fs) |->
                   Assign(fs[i], IF auto(fs[i]) THEN now ELSE m[fs[i]])]

\* The row after the assignments of a SET clause, left to right.
RECURSIVE ApplySet(_, _)
ApplySet(row, set) ==
    IF set = <<>> THEN row
    ELSE LET a == Head(set)
         IN ApplySet([row EXCEPT ![a.col] = IF a.expr THEN @ + 1 ELSE a.val],
                     Tail(set))

\* The in-memory model after the ORM has assigned to it the values of the
\* SET clause it built (assignValue): a map's entries, the clock's reading.
RECURSIVE AssignAll(_, _)
AssignAll(m, set) ==
    IF set = <<>> THEN m
    ELSE AssignAll(IF Head(set).col \in DBNames
                   THEN [m EXCEPT ![Head(set).col] = Head(set).val]
                   ELSE m,
                   Tail(set))

Holds(pred, i, row) ==
    (IF pred.col = "id" THEN i ELSE row[pred.col]) = pred.val

Matches(where, i) ==
    /\ rows[i].live
    /\ \A k \in 1..Len(where) : Holds(where[k], i, rows[i])

AsModel(i, row) ==
    [id |-> i, activation |-> row.activation,
     description |-> row.description, code |-> row.code,
     version |-> row.version]

\* gorm:update, the ORM's own callback: build the SET clause if the statement
\* has none, add the primary key to WHERE, run the UPDATE and, with
\* RETURNING, scan the returned row into the model.  RowsAffected is what the
\* driver reports: the rows the WHERE clause matched, or with mysql (opened
\* without clientFoundRows) the rows the UPDATE changed.
ExecUpdate(p) ==
    /\ stmt[p].pc = "exec"
    /\ stmt[p].op = "update"
    /\ LET s     == stmt[p]
           m     == mem[p][1]
           own   == ~s.hasSet
           set   == IF own THEN ConvertToAssignments(s, m) ELSE s.set
           where == IF own /\ m.id # 0
                    THEN s.where \o <<Eq(PrimaryKey, m.id)>> ELSE s.where
           m1    == IF own THEN AssignAll(m, set) ELSE m
           hit   == {i \in Ids : Matches(where, i)}
           chg   == {i \in hit : ApplySet(rows[i], set) # rows[i]}
           s1    == [s EXCEPT !.where = where, !.pc = "verify", !.pre = rows]
       IN IF s.err # {}
          THEN /\ stmt' = [stmt EXCEPT ![p] = [s EXCEPT !.pc = "verify",
                                                        !.pre = rows]]
               /\ UNCHANGED <<rows, mem>>
          ELSE IF Len(set) = 0
          THEN /\ stmt' = [stmt EXCEPT ![p] = s1]
               /\ mem' = [mem EXCEPT ![p] = <<m1>>]
               /\ UNCHANGED rows
          ELSE IF Len(where) = 0
          THEN /\ stmt' = [stmt EXCEPT ![p] =
                     [s1 EXCEPT !.err = @ \cup {ErrMissingWhereClause}]]
               /\ mem' = [mem EXCEPT ![p] = <<m1>>]
               /\ UNCHANGED rows
          ELSE IF s.dryRun
          THEN /\ stmt' = [stmt EXCEPT ![p] = s1]
               /\ mem' = [mem EXCEPT ![p] = <<m1>>]
               /\ UNCHANGED rows
          ELSE IF \E k \in 1..Len(set) : set[k].col \notin DBNames
          THEN \* the database rejects a column it does not have
               /\ stmt' = [stmt EXCEPT ![p] =
                     [s1 EXCEPT !.err = @ \cup {ErrNoColumn}, !.ran = TRUE]]
               /\ mem' = [mem EXCEPT ![p] = <<m1>>]
               /\ UNCHANGED rows
          ELSE /\ rows' = [i \in Ids |->
                     IF i \in hit THEN ApplySet(rows[i], set) ELSE rows[i]]
               /\ mem' = [mem EXCEPT ![p] =
                     IF s.returning /\ hit # {}
                     THEN LET i == CHOOSE x \in hit : \A y \in hit : x <= y
                          IN <<AsModel(i, rows'[i])>>
                     ELSE <<m1>>]
               /\ stmt' = [stmt EXCEPT ![p] =
                     [s1 EXCEPT !.affected = IF dialect = "mysql"
                                             THEN Cardinality(chg)
                                             ELSE Cardinality(hit),
                                !.ran = TRUE,
                                !.wrote = IF m.id \in hit
                                          THEN <<rows'[m.id]>>
                                          ELSE <<>>]]
    /\ UNCHANGED <<schema, dialect, disableReturning, tally, gen, now, ops>>

\* gorm:update when the driver fails: the statement's context has been
\* cancelled, or the write could not take its lock.  The error is added,
\* nothing is written.
ExecUpdateFails(p) ==
    /\ stmt[p].pc = "exec"
    /\ stmt[p].op = "update"
    /\ ~stmt[p].dryRun
    /\ stmt[p].hasSet
    /\ \E e \in {ErrDriver, ErrBusy} :
           stmt' = [stmt EXCEPT ![p].pc = "verify",
                                ![p].pre = rows,
                                ![p].err = @ \cup {e}]
    /\ UNCHANGED <<schema, dialect, disableReturning, tally,
                   rows, mem, gen, now, ops>>

\* versionMatches comparing an integer version with the observed one.
versionMatchesObserved(old, to, new) ==
    CASE to.tag = "expr" -> new = old.v
      [] to.tag = "val"  -> new = to.v
      [] OTHER           -> FALSE

\* versionMatches(oldAny, toAny, newAny) for the values it does not panic
\* on.  Versions stay far below the width of uint64 in every behaviour, so
\* old+1 is the plain successor.
versionMatches(old, to, new) ==
    CASE to.tag = "expr" -> new = old.v + 1
      [] to.tag = "val"  -> new = to.v
      [] OTHER           -> FALSE

\* The type assertions of versionMatches: oldAny.(uint64) for an integer
\* version, newAny.(uuid.UUID) / newAny.(ulid.ULID) for a generated 16-byte
\* version.  oldAny and newAny are of the field's type, and an assertion to
\* another type panics.
versionMatchesPanics(sch, to) ==
    \/ /\ to.tag = "expr"
       /\ sch.ftype # "uint64"
    \/ /\ to.tag = "val"
       /\ sch.ftype = "bytes16"
       /\ sch.tyname # (IF Generator(sch) = "ulid" THEN "ULID" ELSE "UUID")

\* reloadByPK that finds a row whatever the table holds.
reloadByPKAlwaysFinds(m) ==
    [found |-> TRUE,
     model |-> IF m.id \in Ids THEN AsModel(m.id, rows[m.id]) ELSE ZeroModel]

\* Plugin.reloadByPK: the row with the model's primary key, or not found.
reloadByPK(m) ==
    IF m.id \in Ids /\ rows[m.id].live
    THEN [found |-> TRUE, model |-> AsModel(m.id, rows[m.id])]
    ELSE [found |-> FALSE, model |-> ZeroModel]

\* The error of Plugin.reloadByPK as a hook of statement s calls it:
\* db.First runs under the context of the statement, so it fails when that
\* context has been cancelled, and with record not found when the row is
\* gone.
reloadError(s, m) ==
    IF ErrDriver \in s.err THEN {ErrDriver}
    ELSE IF ~reloadByPK(m).found THEN {ErrRecordNotFound}
    ELSE {}

\* The guards of Plugin.verifyUpdate.
verifyGuard(s, ms) ==
    /\ ~(s.dryRun \/ s.unscoped)
    /\ isTargetedModelUpdate(s, ms)
    /\ findVersionField(schema)

\* Plugin.verifyUpdate (after gorm:after_update)
verifyUpdate(p) ==
    /\ stmt[p].pc = "verify"
    /\ stmt[p].op = "update"
    /\ LET s == stmt[p]
           m == mem[p][1]
           r == reloadByPK(m)
       IN IF ~verifyGuard(s, mem[p])
          THEN /\ stmt' = [stmt EXCEPT ![p].pc = "resolve"]
               /\ UNCHANGED mem
          ELSE IF s.affected = 0
          THEN /\ stmt' = [stmt EXCEPT ![p].pc = "resolve",
                                       ![p].err = IF s.to = Unset THEN @
                                                  ELSE @ \cup {ErrOptimisticLock}]
               /\ UNCHANGED mem
          ELSE IF supportsReturning /\ versionMatchesPanics(schema, s.to)
          THEN /\ stmt' = [stmt EXCEPT ![p].pc = "panic"]
               /\ UNCHANGED mem
          ELSE IF supportsReturning
          THEN /\ stmt' = [stmt EXCEPT ![p].pc = "resolve",
                                       ![p].err =
                                           IF versionMatches(s.from, s.to,
                                                             m.version)
                                           THEN @
                                           ELSE @ \cup {ErrOptimisticLock}]
               /\ UNCHANGED mem
          ELSE IF reloadError(s, m) # {}
          THEN /\ stmt' = [stmt EXCEPT ![p].pc = "resolve",
                                       ![p].err = @ \cup reloadError(s, m)]
               /\ UNCHANGED mem
          ELSE /\ stmt' = [stmt EXCEPT ![p].pc = "resolve"]
               /\ mem' = [mem EXCEPT ![p] = <<r.model>>]
    /\ UNCHANGED <<schema, dialect, disableReturning, tally,
                   rows, gen, now, ops>>

\* ------------------------------------------------------------------ merge
\* A Conflict value: a handler of the caller's (fn), a handler chained by
\* MergeClause from two Conflict values (parts), or no handler (kind none).
Fn(h) == [kind |-> "fn", name |-> h, parts |-> <<>>]

\* Conflict.MergeClause: x is merged into clause c, whose expression is a
\* Conflict (c[1]) or absent (<<>>).
MergeClause(c, x) ==
    IF c # <<>>
    THEN IF c[1].kind # "none" /\ x.kind # "none"
         THEN <<[kind |-> "chained", name |-> "", parts |-> <<c[1], x>>]>>
         ELSE IF c[1].kind # "none" THEN c ELSE <<x>>
    ELSE <<x>>

\* Objects live in a heap, a pointer is a place in it and 0 is nil.
Deref(heap, ptr) == IF ptr = 0 THEN <<>> ELSE <<heap[ptr]>>

\* What the diff reporter has collected after cmp.Equal / cmp.Diff of xs and
\* ys (<<>> is nil): nothing for equal values, one entry at the root for
\* values of different types or a nil side, else one entry for each field
\* that differs.
cmpDiff(xs, ys, sameType) ==
    IF xs = <<>> /\ ys = <<>>
    THEN [root |-> FALSE, x |-> <<>>, y |-> <<>>, fields |-> {}]
    ELSE IF ~sameType \/ xs = <<>> \/ ys = <<>>
    THEN [root |-> TRUE, x |-> xs, y |-> ys, fields |-> {}]
    ELSE [root |-> FALSE, x |-> <<>>, y |-> <<>>,
          fields |-> {[key |-> f, from |-> xs[1][f], to |-> ys[1][f]] :
                         f \in {g \in DBNames : xs[1][g] # ys[1][g]}}]

\* The handlers chained in the model: "nil" returns nil, "current" returns
\* the pointer it is given, "touch" writes the description of the object it
\* is given and returns the same pointer (the handler of
\* ConflictResolutionCallback_ReturnUpdatedCurrent), "copy" returns a new
\* object with the code changed, and nil when it is given nil.  "touch"
\* asserts current.(*TestModel) without a test: given nil it panics.
ChainHandlers == {"nil", "current", "touch", "copy"}

Apply(h, hv, heap, ptr) ==
    CASE h = "current" -> [heap |-> heap, out |-> ptr, panic |-> FALSE]
      [] h = "touch" /\ ptr # 0 ->
             [heap |-> [heap EXCEPT ![ptr].description = hv], out |-> ptr,
              panic |-> FALSE]
      [] h = "touch" /\ ptr = 0 ->
             [heap |-> heap, out |-> 0, panic |-> TRUE]
      [] h = "copy" /\ ptr # 0 ->
             [heap |-> Append(heap, [heap[ptr] EXCEPT !.code = hv]),
              out |-> Len(heap) + 1, panic |-> FALSE]
      [] OTHER -> [heap |-> heap, out |-> 0, panic |-> FALSE]

\* Calling the handler of Conflict value c with pointer ptr and a diff: the
\* heap and the pointer returned, and the calls made to the caller's
\* handlers, each with the object and the diff it was given.  A chained
\* handler calls its first part, compares what current points to now with
\* what was returned, and calls its second part with the returned pointer
\* and the diff of that comparison, or with the diff it was given itself
\* when the comparison found them equal.  A panic in a handler ends the
\* invocation there.
RECURSIVE Invoke(_, _, _, _, _)
Invoke(c, hv, heap, ptr, diff) ==
    IF c.kind = "chained"
    THEN LET r1 == Invoke(c.parts[1], hv, heap, ptr, diff)
             d2 == IF Deref(r1.heap, ptr) # Deref(r1.heap, r1.out)
                   THEN cmpDiff(Deref(r1.heap, ptr), Deref(r1.heap, r1.out),
                                TRUE)
                   ELSE diff
             r2 == Invoke(c.parts[2], hv, r1.heap, r1.out, d2)
         IN IF r1.panic
            THEN [heap |-> r1.heap, out |-> 0, calls |-> r1.calls,
                  panic |-> TRUE]
            ELSE [heap |-> r2.heap, out |-> r2.out,
                  calls |-> r1.calls \o r2.calls, panic |-> r2.panic]
    ELSE LET r == Apply(c.name, hv, heap, ptr)
         IN [heap |-> r.heap, out |-> r.out,
             calls |-> <<[h |-> c.name, arg |-> Deref(heap, ptr),
                          diff |-> diff]>>,
             panic |-> r.panic]

\* resolveConflict calling a merged Conflict clause: the diff of the model
\* as submitted (a struct) and the row just reloaded (a pointer), and the
\* handler invoked with the reloaded row.
InvokeMerged(s, current, m) ==
    Invoke(s.chain[1], s.hval, <<current>>, 1,
           cmpDiff(<<m>>, <<current>>, FALSE))

\* resolveGuard without the test for ErrOptimisticLock.
resolveGuardAnyOutcome(s) ==
    /\ ~(s.dryRun \/ s.unscoped)
    /\ s.conflict # "none"

\* The guards of Plugin.resolveConflict.
resolveGuard(s) ==
    /\ ~(s.dryRun \/ s.unscoped)
    /\ ErrOptimisticLock \in s.err
    /\ s.conflict # "none"

\* Conflict.OnVersionMismatch(current, diff): the handlers a caller attaches.
\* "nil" cancels, "current" returns the row it was given, "merge" returns
\* that row with its description changed, "stale" returns the caller's own
\* model with its description changed.  <<>> stands for nil.
OnVersionMismatch(s, current, m) ==
    CASE s.conflict = "current" -> <<current>>
      [] s.conflict = "merge"   -> <<[current EXCEPT !.description = s.hval]>>
      [] s.conflict = "stale"   -> <<[m EXCEPT !.description = s.hval]>>
      [] s.conflict = "chained" ->
             LET r == InvokeMerged(s, current, m)
             IN Deref(r.heap, r.out)
      [] OTHER                  -> <<>>

\* The handler a merged Conflict clause chains panics on what it is given.
HandlerPanics(s, current, m) ==
    /\ s.conflict = "chained"
    /\ InvokeMerged(s, current, m).panic

\* The calls made to the caller's handlers: the one call of
\* conflict.OnVersionMismatch(current, reporter.Diff()), with the diff of
\* cmp.Diff(db.Statement.ReflectValue.Interface(), current), or the calls a
\* merged clause's handler made in turn.
HandlerCalls(s, current, m) ==
    IF s.conflict = "chained" THEN InvokeMerged(s, current, m).calls
    ELSE <<[h |-> s.conflict, arg |-> <<current>>,
            diff |-> cmpDiff(<<m>>, <<current>>, FALSE)]>>

\* retryStatement with the caller's Conflict clause carried over.
retryStatementKeepsClause(s, current, resolved) ==
    [IdleStmt EXCEPT !.pc = "before", !.op = "update", !.retry = TRUE,
                     !.by = s.conflict, !.called = TRUE,
                     !.conflict = s.conflict, !.hval = s.hval,
                     !.sub = <<resolved>>, !.orig = s.sub,
                     !.seen = <<current>>]

\* The statement of fresh.Session(NewDB).Model(resolved).Updates(resolved):
\* a scoped struct-form update without clauses, which runs through the same
\* callback chain; when it is done its error, rows-affected and model are
\* the caller's.
retryStatement(s, current, resolved) ==
    [IdleStmt EXCEPT !.pc = "before", !.op = "update", !.retry = TRUE,
                     !.by = s.conflict, !.called = TRUE,
                     !.sub = <<resolved>>, !.orig = s.sub,
                     !.seen = <<current>>]

\* Accepting the current value without overwriting the caller's model.
acceptCurrentKeepsModel(m, current) == <<m>>

\* resolveConflict, "accepted current value on conflict": the caller's model
\* is overwritten with the row the reload read.
acceptCurrent(m, current) == <<current>>

\* Plugin.resolveConflict (after gorm:after_update, after verifyUpdate)
resolveConflict(p) ==
    /\ stmt[p].pc = "resolve"
    /\ stmt[p].op = "update"
    /\ LET s == stmt[p]
           r == reloadByPK(mem[p][1])
           resolved == OnVersionMismatch(s, r.model, mem[p][1])
           log == HandlerCalls(s, r.model, mem[p][1])
       IN IF ~resolveGuard(s) \/ reloadError(s, mem[p][1]) # {}
          THEN /\ stmt' = [stmt EXCEPT ![p].pc = "done"]
               /\ UNCHANGED mem
          ELSE IF HandlerPanics(s, r.model, mem[p][1])
          THEN /\ stmt' = [stmt EXCEPT ![p].pc = "panic",
                                       ![p].called = TRUE,
                                       ![p].calls = log]
               /\ UNCHANGED mem
          ELSE IF resolved = <<>>
          THEN /\ stmt' = [stmt EXCEPT ![p].pc = "done",
                                       ![p].called = TRUE,
                                       ![p].calls = log,
                                       ![p].affected = 0]
               /\ UNCHANGED mem
          ELSE IF resolved[1] = r.model
          THEN /\ stmt' = [stmt EXCEPT ![p].pc = "done",
                                       ![p].called = TRUE,
                                       ![p].calls = log,
                                       ![p].seen = <<r.model>>,
                                       ![p].affected = 0]
               /\ mem' = [mem EXCEPT ![p] = acceptCurrent(mem[p][1], r.model)]
          ELSE /\ stmt' = [stmt EXCEPT ![p] =
                              [retryStatement(s, r.model, resolved[1])
                                   EXCEPT !.calls = log]]
               /\ mem' = [mem EXCEPT ![p] = resolved]
    /\ UNCHANGED <<schema, dialect, disableReturning, tally,
                   rows, gen, now, ops>>

\* ------------------------------------------------------------------ ulid
\* The hook the statement is about to run generates a ULID.
generatesUlid(s, ms) ==
    /\ findVersionField(schema)
    /\ schema.ftype = "bytes16"
    /\ IsUlid(schema)
    /\ ~(s.dryRun \/ s.unscoped)
    /\ s.op = "update" => /\ isTargetedModelUpdate(s, ms)
                          /\ s.hasSet \/ Len(collectAssignments(s, ms[1])) > 0

\* ulid.MustNew(ts, ulidEntropy) as the hook of p reaches it: the hook
\* enters the generator's MonotonicRead and reads its state.  ulidEntropy is
\* one object for the whole process and nothing keeps a second goroutine out
\* while the first is inside.
MonotonicRead(p) ==
    /\ stmt[p].pc = "before"
    /\ stmt[p].entropy = "out"
    /\ generatesUlid(stmt[p], mem[p])
    /\ stmt' = [stmt EXCEPT ![p].entropy = "in", ![p].read = gen]
    /\ UNCHANGED <<schema, dialect, disableReturning, tally,
                   rows, mem, gen, now, ops>>

\* A hook inside the generator computes from the state it read: when another
\* goroutine has advanced the generator since, that advance is overwritten
\* and the value the hook then draws has been handed out before.
MonotonicStale(p) ==
    /\ stmt[p].pc = "before"
    /\ stmt[p].entropy = "in"
    /\ gen # stmt[p].read
    /\ gen' = stmt[p].read
    /\ UNCHANGED <<schema, dialect, disableReturning, tally,
                   rows, mem, stmt, now, ops>>

\* ------------------------------------------------------------------ chain
beforeUpdateCallback == "gorm:update"
afterUpdateCallback  == "gorm:after_update"

Callback(n, b, a) == [name |-> n, before |-> b, after |-> a]

\* The ORM's own update callbacks, in the order of their registration.
DefaultUpdateCallbacks ==
    <<Callback("gorm:begin_transaction", "", ""),
      Callback("gorm:setup_reflect_value", "", ""),
      Callback("gorm:before_update", "", ""),
      Callback("gorm:save_before_associations", "", ""),
      Callback("gorm:update", "", ""),
      Callback("gorm:save_after_associations", "", ""),
      Callback("gorm:after_update", "", ""),
      Callback("gorm:commit_or_rollback_transaction", "", "")>>

\* Initialize with the Resolver registered before gorm:after_update.
UpdateCallbacksResolverEarly ==
    DefaultUpdateCallbacks \o
    <<Callback("optimistic:modify_update", beforeUpdateCallback, ""),
      Callback("optimistic:verify_update", "", afterUpdateCallback),
      Callback("optimistic:resolve_conflict", afterUpdateCallback, "")>>

\* Plugin.Initialize: the three update callbacks the plugin registers, after
\* the ORM's own.
UpdateCallbacks ==
    DefaultUpdateCallbacks \o
    <<Callback("optimistic:modify_update", beforeUpdateCallback, ""),
      Callback("optimistic:verify_update", "", afterUpdateCallback),
      Callback("optimistic:resolve_conflict", "", afterUpdateCallback)>>

\* The place of a name in a sequence of names, 0 if it is not there.
Position(names, n) ==
    IF \E k \in 1..Len(names) : names[k] = n
    THEN CHOOSE k \in 1..Len(names) : names[k] = n
    ELSE 0

\* The ORM's ordering of one callback among those already ordered: a
\* callback registered Before(x) goes right in front of x, a callback
\* registered After(x), or without a constraint, goes to the end.
Place(sorted, c) ==
    LET k == Position(sorted, c.before)
    IN IF c.before # "" /\ k # 0
       THEN SubSeq(sorted, 1, k - 1) \o <<c.name>> \o
            SubSeq(sorted, k, Len(sorted))
       ELSE Append(sorted, c.name)

RECURSIVE sortCallbacks(_, _)
sortCallbacks(cs, sorted) ==
    IF cs = <<>> THEN sorted
    ELSE sortCallbacks(Tail(cs), Place(sorted, Head(cs)))

\* The update chain as it is executed.
UpdateChain == sortCallbacks(UpdateCallbacks, <<>>)

\* The callback a statement at a position of the model is about to run.
HookOf(pc) ==
    CASE pc = "before"  -> "optimistic:modify_update"
      [] pc = "exec"    -> "gorm:update"
      [] pc = "verify"  -> "optimistic:verify_update"
      [] pc = "resolve" -> "optimistic:resolve_conflict"
      [] OTHER          -> ""

\* ------------------------------------------------------------------ callers
\* db.First(&model, id): the observer reads the row into memory.
Load(p) ==
    /\ stmt[p].pc = "idle"
    /\ \E i \in Ids :
        /\ rows[i].live
        /\ mem' = [mem EXCEPT ![p] = <<AsModel(i, rows[i])>>]
        /\ mem'[p] # mem[p]
    /\ UNCHANGED <<schema, dialect, disableReturning, tally,
                   rows, stmt, gen, now, ops>>

\* db.Delete(&model): the observer deletes the row it holds a copy of.  The
\* plugin registers no delete callback.
Delete(p) ==
    /\ stmt[p].pc = "idle"
    /\ mem[p][1].id # 0
    /\ rows[mem[p][1].id].live
    /\ rows' = [rows EXCEPT ![mem[p][1].id] = NoRow]
    /\ UNCHANGED <<schema, dialect, disableReturning, tally,
                   mem, stmt, gen, now, ops>>

\* A version no sequence of updates reaches: what a caller may put under
\* the version key of a map.
Forged == MaxOps + MaxVal + 4

\* The selections a caller restricts a struct-form update to.
SelChoices ==
    {{}, {"description"}, {"code"}, {"description", "code"}, {"*"}}

\* The maps a caller passes to Updates: a column, a column and the version,
\* the version alone, a field name, a key the schema does not know (with a
\* column, and alone), and the primary key with a column.
MapChoices(dv) ==
    LET e(c, v) == [col |-> c, val |-> v, expr |-> FALSE]
    IN {<<e("description", dv)>>,
        <<e("description", dv), e("version", Forged)>>,
        <<e("version", Forged)>>,
        <<e("Description", dv)>>,
        <<e("bogus", dv), e("code", dv)>>,
        <<e("bogus", dv)>>,
        <<e("id", Forged), e("description", dv)>>}

\* db.Select(cols...).Updates(&model) after the caller has edited description
\* and code, or db.Model(&model).Updates(map): scoped updates by a caller
\* that holds the version it last read.
BeginShapedUpdate(p, cap) ==
    /\ stmt[p].pc = "idle"
    /\ ops < cap
    /\ mem[p][1].id # 0
    /\ \/ \E dv \in Vals, cv \in Vals, sel \in SelChoices :
            LET model == [mem[p][1] EXCEPT !.description = dv, !.code = cv]
            IN /\ mem'  = [mem EXCEPT ![p] = <<model>>]
               /\ stmt' = [stmt EXCEPT ![p] =
                     [IdleStmt EXCEPT !.pc = "before", !.op = "update",
                                      !.selects = sel, !.sub = <<model>>]]
       \/ \E dv \in Vals : \E d \in MapChoices(dv) :
            /\ mem'  = [mem EXCEPT ![p] = <<mem[p][1]>>]
            /\ stmt' = [stmt EXCEPT ![p] =
                  [IdleStmt EXCEPT !.pc = "before", !.op = "update",
                                   !.form = "map", !.dest = d,
                                   !.sub = <<mem[p][1]>>]]
    /\ ops' = ops + 1
    /\ UNCHANGED <<schema, dialect, disableReturning, tally, rows, gen, now>>

\* The handlers of a Conflict clause.
Handlers == {"nil", "current", "merge", "stale"}

\* db.Clauses(optimistic.Conflict{OnVersionMismatch: h}).Updates(&model), in
\* struct form or with a SET clause of the caller's: the version the caller
\* holds may be any value.
BeginConflictUpdate(p, cap) ==
    /\ stmt[p].pc = "idle"
    /\ ops < cap
    /\ mem[p][1].id # 0
    /\ \E dv \in Vals, h \in Handlers, form \in {"struct", "set"} :
       \E hv \in IF h \in {"merge", "stale"} THEN Vals ELSE {0},
          vv \in {0, mem[p][1].version} :
        LET model == IF form = "struct"
                     THEN [mem[p][1] EXCEPT !.description = dv, !.version = vv]
                     ELSE [mem[p][1] EXCEPT !.version = vv]
            asg   == <<[col |-> "description", val |-> dv, expr |-> FALSE]>>
        IN /\ mem'  = [mem EXCEPT ![p] = <<model>>]
           /\ stmt' = [stmt EXCEPT ![p] =
                 [IdleStmt EXCEPT !.pc = "before", !.op = "update",
                                  !.form = form,
                                  !.hasSet = (form = "set"),
                                  !.set = IF form = "set" THEN asg ELSE <<>>,
                                  !.where = IF form = "set"
                                            THEN <<[kind |-> "expr",
                                                    col |-> PrimaryKey,
                                                    val |-> model.id]>>
                                            ELSE <<>>,
                                  !.conflict = h, !.hval = hv,
                                  !.sub = <<model>>]]
    /\ ops' = ops + 1
    /\ UNCHANGED <<schema, dialect, disableReturning, tally, rows, gen, now>>

\* db.Clauses(optimistic.Conflict{a}, optimistic.Conflict{b}).Updates(&m),
\* the same with a third Conflict{c}, or Conflict{a} followed by a Conflict
\* the caller has merged from b and c beforehand: struct form, the version
\* the caller holds may be stale.
BeginChainedUpdate(p, cap) ==
    /\ stmt[p].pc = "idle"
    /\ ops < cap
    /\ mem[p][1].id # 0
    /\ \E dv \in Vals, hv \in Vals, vv \in {0, mem[p][1].version},
          a \in ChainHandlers, b \in ChainHandlers,
          shape \in {"two", "left", "right"} :
       \E c \in IF shape = "two" THEN {"nil"} ELSE ChainHandlers :
        LET model == [mem[p][1] EXCEPT !.description = dv, !.version = vv]
            ab    == MergeClause(MergeClause(<<>>, Fn(a)), Fn(b))
            bc    == MergeClause(MergeClause(<<>>, Fn(b)), Fn(c))
            chain == CASE shape = "two"  -> ab
                       [] shape = "left" -> MergeClause(ab, Fn(c))
                       [] OTHER -> MergeClause(MergeClause(<<>>, Fn(a)),
                                               bc[1])
        IN /\ mem'  = [mem EXCEPT ![p] = <<model>>]
           /\ stmt' = [stmt EXCEPT ![p] =
                 [IdleStmt EXCEPT !.pc = "before", !.op = "update",
                                  !.conflict = "chained", !.hval = hv,
                                  !.chain = chain,
                                  !.hs = IF shape = "two" THEN <<a, b>>
                                         ELSE <<a, b, c>>,
                                  !.sub = <<model>>]]
    /\ ops' = ops + 1
    /\ UNCHANGED <<schema, dialect, disableReturning, tally, rows, gen, now>>

\* db.Model(&m).Where(conds).Updates(&m) or .Updates(map): the caller adds
\* conditions of its own, map[string]any{"id": w} or
\* map[string]any{"description": d} (clause.Eq), "id = ?" (clause.Expr), or
\* two of them.
BeginWhereUpdate(p, cap) ==
    /\ stmt[p].pc = "idle"
    /\ ops < cap
    /\ mem[p][1].id # 0
    /\ \E dv \in Vals, form \in {"struct", "map"}, w \in Ids, d \in Vals,
          shape \in {"eqpk", "exprpk", "eqcol", "both"} :
        LET model == IF form = "struct"
                     THEN [mem[p][1] EXCEPT !.description = dv]
                     ELSE mem[p][1]
            asg   == <<[col |-> "description", val |-> dv, expr |-> FALSE]>>
            conds == CASE shape = "eqpk"   -> <<Eq(PrimaryKey, w)>>
                       [] shape = "exprpk" -> <<[kind |-> "expr",
                                                 col |-> PrimaryKey,
                                                 val |-> w]>>
                       [] shape = "eqcol"  -> <<Eq("description", d)>>
                       [] OTHER -> <<Eq("description", d), Eq(PrimaryKey, w)>>
        IN /\ mem'  = [mem EXCEPT ![p] = <<model>>]
           /\ stmt' = [stmt EXCEPT ![p] =
                 [IdleStmt EXCEPT !.pc = "before", !.op = "update",
                                  !.form = form,
                                  !.dest = IF form = "map" THEN asg ELSE <<>>,
                                  !.where = conds,
                                  !.sub = <<model>>]]
    /\ ops' = ops + 1
    /\ UNCHANGED <<schema, dialect, disableReturning, tally, rows, gen, now>>

\* The caller assigns at least one column other than the version: the
\* Rewriter's assignment set is not empty.
Assigns(s) ==
    \/ s.form = "set"
    \/ Len(collectAssignments(s, s.sub[1])) > 0

\* The statement returns to its caller, who counts the targeted, scoped
\* updates that assigned a column and came back without error.
Finish(p) ==
    /\ stmt[p].pc = "done"
    /\ stmt' = [stmt EXCEPT ![p] = IdleStmt]
    /\ LET s == stmt[p]
       IN tally' = IF /\ s.op = "update"
                      /\ ~s.dryRun
                      /\ ~s.unscoped
                      /\ s.sub[1].id # 0
                      /\ s.err = {}
                      /\ Assigns(s)
                   THEN [tally EXCEPT ![s.sub[1].id] = @ + 1]
                   ELSE tally
    /\ UNCHANGED <<schema, dialect, disableReturning, rows,
                   mem, gen, now, ops>>

\* The clock advances.
Tick ==
    /\ schema.ftype = "time" \/ schema.autoUpdateTime
    /\ now < MaxTick
    /\ now' = now + 1
    /\ UNCHANGED <<schema, dialect, disableReturning, tally,
                   rows, mem, stmt, gen, ops>>

\* ------------------------------------------------------------------ specs
Start ==
    /\ rows = [i \in Ids |-> NoRow]
    /\ mem = [p \in Procs |-> <<ZeroModel>>]
    /\ stmt = [p \in Procs |-> IdleStmt]
    /\ gen = 0
    /\ now = 1
    /\ ops = 0
    /\ tally = [i \in Ids |-> 0]

\* Spec: one observer issues statements one after the other, with every
\* option a caller has; the version it holds may be any value.  The model
\* type is one without an autoUpdateTime column; SpecAuto takes the other.
Init ==
    /\ schema \in {sch \in Schemas : ~sch.autoUpdateTime}
    /\ dialect \in {"sqlite", "mysql"}
    /\ disableReturning \in BOOLEAN
    /\ disableReturning => (dialect = "sqlite" /\ schema = TestModel)
    /\ Start

Next ==
    \/ BeginCreate("m", {0, MaxVal + 1}, Modes, MaxOps)
    \/ initializeVersion("m")
    \/ ExecCreate("m")
    \/ verifyCreate("m")
    \/ BeginUpdate("m", CoreOptions, VerIn, MaxOps)
    \/ BeginMassUpdate("m", MaxOps)
    \/ modifyUpdate("m")
    \/ ExecUpdate("m")
    \/ ExecUpdateFails("m")
    \/ verifyUpdate("m")
    \/ resolveConflict("m")
    \/ Load("m")
    \/ Finish("m")
    \/ Tick

Spec == Init /\ [][Next]_vars

\* SpecAuto: the statements of Spec on the model type with an
\* autoUpdateTime column, TestModelWithTime.
InitAuto ==
    /\ schema \in {sch \in Schemas : sch.autoUpdateTime}
    /\ dialect \in {"sqlite", "mysql"}
    /\ disableReturning = FALSE
    /\ Start

SpecAuto == InitAuto /\ [][Next]_vars

\* SpecSeq: a create, as the first statement, followed by updates; one
\* observer that keeps the version it was given.
InitSeq ==
    /\ schema = TestModel
    /\ dialect \in {"sqlite", "mysql"}
    /\ disableReturning = FALSE
    /\ Start

NextSeq ==
    \/ BeginCreate("m", {0, MaxVal + 1}, {"scoped"}, 1)
    \/ initializeVersion("m")
    \/ ExecCreate("m")
    \/ verifyCreate("m")
    \/ BeginUpdate("m", GatedOptions, {}, MaxOps + 2)
    \/ modifyUpdate("m")
    \/ ExecUpdate("m")
    \/ verifyUpdate("m")
    \/ resolveConflict("m")
    \/ Finish("m")

SpecSeq == InitSeq /\ [][NextSeq]_vars

\* SpecRace: two observers of the same table whose statements overlap; the
\* first statement fills the table.
InitRace ==
    /\ schema \in {TestModel, TestModelNoVersion}
    /\ dialect \in {"sqlite", "mysql"}
    /\ disableReturning = FALSE
    /\ Start

NextRace ==
    \/ \E p \in Procs : BeginCreate(p, {0}, {"scoped"}, 1)
    \/ \E p \in Procs : initializeVersion(p)
    \/ \E p \in Procs : ExecCreate(p)
    \/ \E p \in Procs : verifyCreate(p)
    \/ \E p \in Procs : BeginUpdate(p, GatedOptions, {}, MaxOps + 1)
    \/ \E p \in Procs : modifyUpdate(p)
    \/ \E p \in Procs : ExecUpdate(p)
    \/ \E p \in Procs : verifyUpdate(p)
    \/ \E p \in Procs : resolveConflict(p)
    \/ \E p \in Procs : Load(p)
    \/ \E p \in Procs : Finish(p)

SpecRace == InitRace /\ [][NextRace]_vars

\* SpecSel: one observer creates a record and then updates it in struct
\* form under every selection, and in map form.
InitSel ==
    /\ schema = TestModel
    /\ dialect \in {"sqlite", "mysql"}
    /\ disableReturning = FALSE
    /\ Start

NextSel ==
    \/ BeginCreate("m", {0}, {"scoped"}, 1)
    \/ initializeVersion("m")
    \/ ExecCreate("m")
    \/ verifyCreate("m")
    \/ BeginShapedUpdate("m", MaxOps + 1)
    \/ modifyUpdate("m")
    \/ ExecUpdate("m")
    \/ verifyUpdate("m")
    \/ resolveConflict("m")
    \/ Finish("m")

SpecSel == InitSel /\ [][NextSel]_vars

\* SpecResolve: observer "m" creates a record and updates it with a Conflict
\* clause attached, while observer "mp" loads and updates the same record.
InitResolve ==
    /\ schema = TestModel
    /\ dialect \in {"sqlite", "mysql"}
    /\ disableReturning = FALSE
    /\ Start

NextResolve ==
    \/ BeginCreate("m", {0}, {"scoped"}, 1)
    \/ initializeVersion("m")
    \/ ExecCreate("m")
    \/ verifyCreate("m")
    \/ BeginConflictUpdate("m", MaxOps + 1)
    \/ BeginUpdate("mp", {PlainUpdate}, {}, MaxOps + 1)
    \/ \E p \in Procs : modifyUpdate(p)
    \/ \E p \in Procs : ExecUpdate(p)
    \/ \E p \in Procs : verifyUpdate(p)
    \/ \E p \in Procs : resolveConflict(p)
    \/ Load("mp")
    \/ \E p \in Procs : Finish(p)

SpecResolve == InitResolve /\ [][NextResolve]_vars

\* SpecHooks: one observer creates a record and updates it, with or without
\* a Conflict clause; the before-update hook may be entered a second time
\* on a statement, and the execution of a statement may fail in the driver.
InitHooks ==
    /\ schema \in {TestModel, TestModelUUIDVersion}
    /\ dialect \in {"sqlite", "mysql"}
    /\ disableReturning = FALSE
    /\ Start

NextHooks ==
    \/ BeginCreate("m", {0}, {"scoped"}, 1)
    \/ initializeVersion("m")
    \/ ExecCreate("m")
    \/ verifyCreate("m")
    \/ BeginUpdate("m", {PlainUpdate, SetUpdate, UnscopedUpdate}, {}, MaxOps)
    \/ BeginConflictUpdate("m", MaxOps)
    \/ modifyUpdate("m")
    \/ modifyUpdateAgain("m")
    \/ ExecUpdate("m")
    \/ ExecUpdateFails("m")
    \/ verifyUpdate("m")
    \/ resolveConflict("m")
    \/ Finish("m")

SpecHooks == InitHooks /\ [][NextHooks]_vars

\* SpecUlid: two goroutines create and update records of a ULID-versioned
\* model through one *gorm.DB.
InitUlid ==
    /\ schema = TestModelULIDVersion
    /\ dialect = "sqlite"
    /\ disableReturning = FALSE
    /\ Start

NextUlid ==
    \/ \E p \in Procs : BeginCreate(p, {0}, {"scoped"}, MaxOps)
    \/ \E p \in Procs : MonotonicRead(p)
    \/ \E p \in Procs : MonotonicStale(p)
    \/ \E p \in Procs : initializeVersion(p)
    \/ \E p \in Procs : ExecCreate(p)
    \/ \E p \in Procs : verifyCreate(p)
    \/ \E p \in Procs : BeginUpdate(p, {PlainUpdate}, {}, MaxOps + 1)
    \/ \E p \in Procs : modifyUpdate(p)
    \/ \E p \in Procs : ExecUpdate(p)
    \/ \E p \in Procs : verifyUpdate(p)
    \/ \E p \in Procs : resolveConflict(p)
    \/ \E p \in Procs : Finish(p)

SpecUlid == InitUlid /\ [][NextUlid]_vars

\* The model types of SpecKinds.
Kinds == {TestModel, TestModelUUIDVersion, TestModelULIDVersion,
          TestModelTimeVersion, TestOracleModelULIDVersion,
          ModelStringVersion, ModelUUIDTagOnULID, ModelULIDTagOnUUID,
          ModelUlidKeyVersion, ModelTokenVersion}

\* SpecKinds: one observer creates records of a model type, in every mode
\* and with any version in the field, and updates them; the version field
\* is of any kind a caller may declare, and the model may have an
\* AfterCreate method.
InitKinds ==
    /\ schema \in Kinds
    /\ dialect \in {"sqlite", "mysql"}
    /\ disableReturning = FALSE
    /\ Start

NextKinds ==
    \/ BeginCreate("m", VerIn, Modes, 1)
    \/ initializeVersion("m")
    \/ ExecCreate("m")
    \/ AfterCreateHook("m")
    \/ verifyCreate("m")
    \/ BeginUpdate("m", {PlainUpdate, MapUpdate}, {}, MaxOps)
    \/ modifyUpdate("m")
    \/ ExecUpdate("m")
    \/ verifyUpdate("m")
    \/ resolveConflict("m")
    \/ Finish("m")
    \/ Tick

SpecKinds == InitKinds /\ [][NextKinds]_vars

\* SpecMerge: one observer creates a record and updates it with two or
\* three Conflict clauses attached, holding a current or a stale version.
InitMerge ==
    /\ schema = TestModel
    /\ dialect \in {"sqlite", "mysql"}
    /\ disableReturning = FALSE
    /\ Start

NextMerge ==
    \/ BeginCreate("m", {0}, {"scoped"}, 1)
    \/ initializeVersion("m")
    \/ ExecCreate("m")
    \/ verifyCreate("m")
    \/ BeginChainedUpdate("m", MaxOps)
    \/ modifyUpdate("m")
    \/ ExecUpdate("m")
    \/ verifyUpdate("m")
    \/ resolveConflict("m")
    \/ Finish("m")

SpecMerge == InitMerge /\ [][NextMerge]_vars

\* SpecWhere: one observer creates records and updates one of them with
\* conditions of its own in the WHERE clause.
InitWhere ==
    /\ schema = TestModel
    /\ dialect \in {"sqlite", "mysql"}
    /\ disableReturning = FALSE
    /\ Start

NextWhere ==
    \/ BeginCreate("m", {0}, {"scoped"}, 1)
    \/ initializeVersion("m")
    \/ ExecCreate("m")
    \/ verifyCreate("m")
    \/ BeginWhereUpdate("m", MaxOps + 1)
    \/ modifyUpdate("m")
    \/ ExecUpdate("m")
    \/ verifyUpdate("m")
    \/ resolveConflict("m")
    \/ Finish("m")

SpecWhere == InitWhere /\ [][NextWhere]_vars

\* SpecTarget: isTargetedModelUpdate applied to the statement of
\* db.Model(&m).Updates(..) or db.Model(&ms).Updates(..), with m any model
\* and ms any sequence of at most two models.
TargetModels ==
    [id : 0..MaxRows, description : Vals, code : {0}, version : {0, 1}]

InitTarget ==
    /\ schema = TestModel
    /\ dialect = "sqlite"
    /\ disableReturning = FALSE
    /\ rows = [i \in Ids |-> NoRow]
    /\ gen = 0
    /\ now = 1
    /\ ops = 0
    /\ tally = [i \in Ids |-> 0]
    /\ \E sl \in BOOLEAN :
       \E ms \in IF sl
                 THEN {<<>>} \cup {<<a>> : a \in TargetModels}
                       \cup {<<a, b>> : a \in TargetModels, b \in TargetModels}
                 ELSE {<<a>> : a \in TargetModels} :
          /\ mem = [p \in Procs |-> IF p = "m" THEN ms ELSE <<ZeroModel>>]
          /\ stmt = [p \in Procs |->
                        IF p = "m"
                        THEN [IdleStmt EXCEPT !.pc = "before",
                                              !.op = "update",
                                              !.slice = sl, !.sub = ms]
                        ELSE IdleStmt]

NextTarget == Classify("m")

SpecTarget == InitTarget /\ [][NextTarget]_vars

\* SpecInts: one observer creates a record whose version field is of one
\* of three integer types and updates it from its up-to-date copy.
InitInts ==
    /\ schema \in {TestModel, ModelInt64Version, ModelUint32Version}
    /\ dialect \in {"sqlite", "mysql"}
    /\ disableReturning \in BOOLEAN
    /\ Start

NextInts ==
    \/ BeginCreate("m", {0}, {"scoped"}, 1)
    \/ initializeVersion("m")
    \/ ExecCreate("m")
    \/ verifyCreate("m")
    \/ BeginUpdate("m", {PlainUpdate, MapUpdate}, {}, MaxOps + 1)
    \/ modifyUpdate("m")
    \/ ExecUpdate("m")
    \/ verifyUpdate("m")
    \/ resolveConflict("m")
    \/ Finish("m")

SpecInts == InitInts /\ [][NextInts]_vars

\* SpecGone: observer "m" creates a record and updates it with a Conflict
\* clause attached while observer "mp", who has loaded the record, may
\* delete it; the execution of the update may fail in the driver.
InitGone ==
    /\ schema = TestModel
    /\ dialect \in {"sqlite", "mysql"}
    /\ disableReturning = FALSE
    /\ Start

NextGone ==
    \/ BeginCreate("m", {0}, {"scoped"}, 1)
    \/ initializeVersion("m")
    \/ ExecCreate("m")
    \/ verifyCreate("m")
    \/ BeginConflictUpdate("m", MaxOps + 1)
    \/ modifyUpdate("m")
    \/ ExecUpdate("m")
    \/ ExecUpdateFails("m")
    \/ verifyUpdate("m")
    \/ resolveConflict("m")
    \/ Load("mp")
    \/ Delete("mp")
    \/ Finish("m")

SpecGone == InitGone /\ [][NextGone]_vars

\* SpecRetry: one observer creates a record and updates it with a Conflict
\* clause attached, from a current or a stale copy; a statement that has
\* entered the callback chain runs through it, each callback returning.
NextRetry ==
    \/ BeginCreate("m", {0}, {"scoped"}, 1)
    \/ initializeVersion("m")
    \/ ExecCreate("m")
    \/ verifyCreate("m")
    \/ BeginConflictUpdate("m", MaxOps + 1)
    \/ modifyUpdate("m")
    \/ ExecUpdate("m")
    \/ verifyUpdate("m")
    \/ resolveConflict("m")
    \/ Finish("m")

SpecRetry ==
    /\ InitResolve
    /\ [][NextRetry]_vars
    /\ WF_vars(modifyUpdate("m"))
    /\ WF_vars(ExecUpdate("m"))
    /\ WF_vars(verifyUpdate("m"))
    /\ WF_vars(resolveConflict("m"))

\* ------------------------------------------------------------------ claims
\* A targeted, scoped, non-dry-run update statement.
Gated(s) ==
    /\ s.op = "update"
    /\ ~s.dryRun
    /\ ~s.unscoped
    /\ ~s.slice
    /\ s.sub[1].id # 0

\* The value the update assigns to column description.
Assigned(s) ==
    CASE s.form = "map" -> s.dest[1].val
      [] s.form = "set" -> s.set[1].val
      [] OTHER          -> s.sub[1].description

\* Observers p and q hold copies of the same row with the same version V,
\* V was the persisted version when one of the two updates ran, and each
\* update assigns a column; both statements have come to their end.
Racing(p, q) ==
    /\ p # q
    /\ schema.tagged
    /\ isNumericKind(schema.ftype)
    /\ stmt[p].pc = "done" /\ Gated(stmt[p]) /\ Assigns(stmt[p])
    /\ stmt[q].pc = "done" /\ Gated(stmt[q]) /\ Assigns(stmt[q])
    /\ stmt[p].sub[1].id = stmt[q].sub[1].id
    /\ stmt[p].sub[1].version = stmt[q].sub[1].version
    /\ stmt[p].pre[stmt[p].sub[1].id].version = stmt[p].sub[1].version

Won(p) ==
    LET s == stmt[p]
        i == s.sub[1].id
    IN /\ s.err = {}
       /\ s.affected = 1
       /\ rows[i].version = s.sub[1].version + 1
       /\ rows[i].description = Assigned(s)

Lost(p) ==
    LET s == stmt[p]
    IN /\ ErrOptimisticLock \in s.err
       /\ s.affected = 0
       /\ s.wrote = <<>>

\* C1: no lost update (integer version).  Of two updates submitted from
\* copies holding the persisted version V, in every interleaving exactly one
\* succeeds (one row affected, persisted version V+1, persisted fields the
\* winner's) and the other ends with ErrOptimisticLock, no row affected and
\* the row untouched.
NoLostUpdate ==
    \A p, q \in Procs :
        Racing(p, q) =>
            \/ Won(p) /\ Lost(q)
            \/ Won(q) /\ Lost(p)

\* C1 for the updates whose SET clause the plugin builds itself (struct
\* and map form).
NoLostUpdateOwnSet ==
    \A p, q \in Procs :
        (Racing(p, q) /\ stmt[p].form # "set" /\ stmt[q].form # "set") =>
            \/ Won(p) /\ Lost(q)
            \/ Won(q) /\ Lost(p)

\* C1's case is reached: two racing updates of the plugin-built kind whose
\* executions overlap (the loser was rewritten before the winner ran).
NoLostUpdateReached ==
    \E p, q \in Procs :
        /\ Racing(p, q)
        /\ stmt[p].form # "set" /\ stmt[q].form # "set"
        /\ Won(p) /\ Lost(q)
        /\ stmt[q].pre # stmt[p].pre

\* A scoped, non-dry-run create or a targeted, scoped, non-dry-run update
\* that assigns a column has come back to its caller without error.
Succeeded(s) ==
    /\ s.pc = "done"
    /\ s.err = {}
    /\ \/ s.op = "create" /\ ~s.dryRun /\ ~s.unscoped
       \/ Gated(s) /\ Assigns(s)

\* C2: with an integer version, after a successful create followed by k
\* successful targeted, scoped updates that each assign a non-version
\* column, the persisted version is k+1, and after every step the in-memory
\* version equals the persisted one.
VersionCountsUpdates ==
    (schema.tagged /\ isNumericKind(schema.ftype)) =>
        \A p \in Procs :
            Succeeded(stmt[p]) =>
                \A k \in 1..Len(mem[p]) :
                    LET i == mem[p][k].id
                        n == IF stmt[p].op = "update" THEN tally[i] + 1
                             ELSE tally[i]
                    IN /\ rows[i].version = n + 1
                       /\ mem[p][k].version = rows[i].version

\* A scoped, non-dry-run create of a versioned model, past its before hook.
Seeded(s) ==
    /\ s.op = "create"
    /\ s.pc \in {"exec", "verify", "done"}
    /\ ~s.dryRun
    /\ ~s.unscoped
    /\ schema.tagged

\* C3: a scoped, non-dry-run create gives every element an integer version
\* of 1 whatever the caller put in the field, and a UUID, ULID or timestamp
\* version that is not zero; after a successful create the in-memory version
\* equals the persisted one.
CreateSeedsVersion ==
    \A p \in Procs :
        Seeded(stmt[p]) =>
            \A k \in 1..Len(mem[p]) :
                /\ isNumericKind(schema.ftype) => mem[p][k].version = 1
                /\ schema.ftype \in {"bytes16", "time"}
                       => mem[p][k].version # 0
                /\ (stmt[p].pc = "done" /\ stmt[p].err = {})
                       => /\ mem[p][k].id \in Ids
                          /\ rows[mem[p][k].id].version = mem[p][k].version

\* C3's case is reached: a batch of integer-versioned models whose caller
\* put a version other than 0 and 1 in the field has been created.
CreateSeedsVersionReached ==
    \E p \in Procs :
        /\ Seeded(stmt[p])
        /\ stmt[p].pc = "done"
        /\ stmt[p].err = {}
        /\ isNumericKind(schema.ftype)
        /\ stmt[p].slice
        /\ stmt[p].sub[1].version > 1
        /\ rows[mem[p][Len(mem[p])].id].version = 1

\* A targeted, scoped, non-dry-run update of a versioned model has passed
\* its verify hook, and the version it was submitted with was not the
\* persisted version when it ran.
Stale(s) ==
    /\ Gated(s)
    /\ schema.tagged
    /\ s.pc \in {"resolve", "done"}
    /\ s.sub[1].version # s.pre[s.sub[1].id].version

\* C4 as stated: every targeted, scoped, non-dry-run update of a versioned
\* model whose in-memory version differs from the persisted one affects no
\* row and has ErrOptimisticLock added to its error.
StaleUpdateConflicts ==
    \A p \in Procs :
        Stale(stmt[p]) =>
            /\ stmt[p].affected = 0
            /\ ErrOptimisticLock \in stmt[p].err

\* C4, amended: every targeted, scoped, non-dry-run update of a versioned
\* model in which the caller assigns at least one non-version column (the
\* Rewriter's assignment set is not empty) and whose in-memory version
\* (lower, higher or zero) differs from the persisted one affects no row,
\* leaves the row as it was, and has ErrOptimisticLock added to its error.
StaleAssigningUpdateConflicts ==
    \A p \in Procs :
        (Stale(stmt[p]) /\ Assigns(stmt[p])) =>
            /\ stmt[p].affected = 0
            /\ stmt[p].wrote = <<>>
            /\ ErrOptimisticLock \in stmt[p].err

\* C4's case is reached: an assigning update submitted with version zero
\* against a row whose persisted version is not zero was sent to the
\* database and has ended in conflict.
StaleAssigningUpdateReached ==
    \E p \in Procs :
        /\ Stale(stmt[p])
        /\ Assigns(stmt[p])
        /\ stmt[p].form = "struct"
        /\ stmt[p].ran
        /\ stmt[p].sub[1].version = 0
        /\ ErrOptimisticLock \in stmt[p].err

\* A targeted update has ended with ErrOptimisticLock and carried no
\* Conflict clause.
Rejected(s) ==
    /\ s.op = "update"
    /\ s.pc = "done"
    /\ s.sub[1].id # 0
    /\ ErrOptimisticLock \in s.err
    /\ s.conflict = "none"

\* C5: when a targeted update ends with ErrOptimisticLock and no Conflict
\* clause is attached, the in-memory model is exactly as the caller
\* submitted it (version and all fields) and the persisted row is unchanged.
ConflictChangesNothing ==
    \A p \in Procs :
        Rejected(stmt[p]) =>
            /\ mem[p] = stmt[p].sub
            /\ rows = stmt[p].pre

\* C5 for the updates whose SET clause the plugin builds itself (struct
\* and map form).
ConflictChangesNothingOwnSet ==
    \A p \in Procs :
        (Rejected(stmt[p]) /\ stmt[p].form # "set") =>
            /\ mem[p] = stmt[p].sub
            /\ rows = stmt[p].pre

\* A targeted, scoped, non-dry-run update of a UUID- or ULID-versioned model
\* that assigns a column has come to its end.
Regenerating(s) ==
    /\ Gated(s)
    /\ Assigns(s)
    /\ schema.tagged
    /\ schema.ftype = "bytes16"
    /\ s.pc = "done"

\* C6: with a UUID or ULID version, every successful targeted update leaves
\* a persisted and in-memory version different from the prior one, and an
\* update submitted with the zero value, or any value other than the
\* persisted one, ends with ErrOptimisticLock and no row affected.
UpdateRegeneratesVersion ==
    \A p \in Procs :
        LET s == stmt[p]
            i == s.sub[1].id
        IN Regenerating(s) =>
            /\ (s.err = {} /\ s.affected = 1) =>
                   /\ rows[i].version # s.pre[i].version
                   /\ mem[p][1].version = rows[i].version
            /\ s.sub[1].version # s.pre[i].version =>
                   /\ ErrOptimisticLock \in s.err
                   /\ s.affected = 0

\* C6 for the updates whose SET clause the plugin builds itself (struct
\* and map form).
UpdateRegeneratesVersionOwnSet ==
    \A p \in Procs :
        LET s == stmt[p]
            i == s.sub[1].id
        IN (Regenerating(s) /\ s.form # "set") =>
            /\ (s.err = {} /\ s.affected = 1) =>
                   /\ rows[i].version # s.pre[i].version
                   /\ mem[p][1].version = rows[i].version
            /\ s.sub[1].version # s.pre[i].version =>
                   /\ ErrOptimisticLock \in s.err
                   /\ s.affected = 0

\* Observer p takes a step of its statement.
Moves(p) == stmt'[p].pc # stmt[p].pc

\* The step leaves p's statement (but for its position and the count of
\* entries of the before-update hook), p's model and the table as they are.
Leaves(p) ==
    /\ stmt'[p] = [stmt[p] EXCEPT !.pc = stmt'[p].pc,
                                  !.entries = stmt'[p].entries]
    /\ mem'[p] = mem[p]
    /\ rows' = rows

AtUpdateHook(s) == s.op = "update" /\ s.pc \in {"before", "verify", "resolve"}
AtCreateHook(s) == s.op = "create" /\ s.pc \in {"before", "verify"}

\* The plugin has left no mark on the statement: no scratch key, no
\* RETURNING clause, no ErrOptimisticLock.
Unmarked(s) ==
    /\ s.from = Unset
    /\ s.to = Unset
    /\ ~s.returning
    /\ ErrOptimisticLock \notin s.err

\* C7: an update issued in unscoped mode is never rewritten and never
\* verified: its three hooks leave the statement, the model and the table
\* as they are, no from/to-version is recorded and ErrOptimisticLock is
\* never raised, even when the in-memory version is stale.
UnscopedUpdateUntouched ==
    /\ [](\A p \in Procs :
            (stmt[p].op = "update" /\ stmt[p].unscoped) => Unmarked(stmt[p]))
    /\ [][\A p \in Procs :
            (AtUpdateHook(stmt[p]) /\ stmt[p].unscoped /\ Moves(p))
                => Leaves(p)]_vars

\* C7's case is reached: an unscoped update submitted with a stale version
\* has written the row and come back without error.
UnscopedUpdateReached ==
    \E p \in Procs :
        LET s == stmt[p]
        IN /\ s.op = "update"
           /\ s.unscoped
           /\ s.pc = "done"
           /\ schema.tagged
           /\ s.sub[1].id # 0
           /\ s.sub[1].version # s.pre[s.sub[1].id].version
           /\ s.wrote # <<>>
           /\ s.affected = 1
           /\ s.err = {}

\* C8: a dry-run update changes neither the in-memory version nor the
\* persisted row, leaves the statement unrewritten and never raises
\* ErrOptimisticLock: each of the three update hooks (rewrite, verify,
\* resolve) leaves the statement, the model and the table as they are.
DryRunUpdateUntouched ==
    /\ [](\A p \in Procs :
            (stmt[p].op = "update" /\ stmt[p].dryRun) =>
                /\ Unmarked(stmt[p])
                /\ ~stmt[p].ran
                /\ mem[p][1].version = stmt[p].sub[1].version)
    /\ [][\A p \in Procs :
            (stmt[p].op = "update" /\ stmt[p].dryRun /\ Moves(p)) =>
                /\ rows' = rows
                /\ AtUpdateHook(stmt[p]) => Leaves(p)]_vars

\* C8's case is reached: a dry-run update of a versioned model, submitted
\* with a stale version and a Conflict clause, has passed all three hooks.
DryRunUpdateReached ==
    \E p \in Procs :
        LET s == stmt[p]
        IN /\ s.op = "update"
           /\ s.dryRun
           /\ s.pc = "done"
           /\ schema.tagged
           /\ s.conflict # "none"
           /\ s.sub[1].description # 0
           /\ s.sub[1].version # rows[s.sub[1].id].version

\* C9: an update whose model carries a zero primary key (a mass update by
\* the caller's predicate) is left as the caller built it: the hooks add no
\* SET assignment, WHERE predicate, RETURNING clause or scratch key, the
\* version of the rows it affects is not bumped and ErrOptimisticLock is
\* never raised, whatever the number of rows affected.
MassUpdateUntouched ==
    /\ [](\A p \in Procs :
            (stmt[p].op = "update" /\ stmt[p].sub[1].id = 0)
                => Unmarked(stmt[p]))
    /\ [][\A p \in Procs :
            (stmt[p].op = "update" /\ stmt[p].sub[1].id = 0 /\ Moves(p)) =>
                /\ \A i \in Ids : rows'[i].version = rows[i].version
                /\ AtUpdateHook(stmt[p]) => Leaves(p)]_vars

\* C9's case is reached: a scoped mass update of a versioned model has
\* changed more than one row.
MassUpdateReached ==
    \E p \in Procs :
        LET s == stmt[p]
        IN /\ s.op = "update"
           /\ s.sub[1].id = 0
           /\ ~s.unscoped
           /\ s.pc = "done"
           /\ schema.tagged
           /\ s.affected > 1
           /\ rows # s.pre
           /\ s.err = {}

\* The update has something to write: the ORM's own SET clause is not empty.
Writes(s) ==
    \/ s.form = "set"
    \/ Len(ConvertToAssignments(s, s.sub[1])) > 0

\* A targeted update of a model without a version field that has something
\* to write has come to its end.
Unversioned(s) ==
    /\ ~schema.tagged
    /\ Gated(s)
    /\ Writes(s)
    /\ s.pc = "done"

\* C10: for a model with no version-tagged field the create and update
\* hooks never change the statement and never raise ErrOptimisticLock: an
\* observer's targeted update succeeds and puts its value in the row
\* whatever another observer wrote there since the copy was read (the last
\* writer wins).  The driver reports one row affected, or none with mysql
\* when the row already held what the update writes.
UnversionedLastWriterWins ==
    /\ [](~schema.tagged =>
            \A p \in Procs :
                /\ Unmarked(stmt[p])
                /\ Unversioned(stmt[p]) =>
                       /\ stmt[p].err = {}
                       /\ stmt[p].wrote # <<>>
                       /\ stmt[p].affected =
                              IF /\ dialect = "mysql"
                                 /\ stmt[p].wrote[1]
                                        = stmt[p].pre[stmt[p].sub[1].id]
                              THEN 0 ELSE 1)
    /\ [][~schema.tagged =>
            \A p \in Procs :
                /\ ((AtUpdateHook(stmt[p]) \/ AtCreateHook(stmt[p]))
                        /\ Moves(p)) => Leaves(p)
                /\ (Gated(stmt[p]) /\ Writes(stmt[p]) /\ stmt[p].pc = "exec"
                        /\ Moves(p)) =>
                       rows'[stmt[p].sub[1].id].description
                           = Assigned(stmt[p])]_vars

\* C10's case is reached: q holds a copy of an unversioned row, p has
\* changed the row since, and q's update from its stale copy has succeeded
\* after p's; the row holds q's value.
UnversionedReached ==
    \E p, q \in Procs :
        /\ p # q
        /\ Unversioned(stmt[p])
        /\ Unversioned(stmt[q])
        /\ stmt[p].sub[1].id = stmt[q].sub[1].id
        /\ stmt[p].wrote # <<>>
        /\ stmt[q].wrote # <<>>
        /\ stmt[q].form = "map"
        /\ stmt[q].sub[1].description
               = stmt[p].pre[stmt[p].sub[1].id].description
        /\ stmt[q].sub[1].description # stmt[p].wrote[1].description
        /\ stmt[q].pre[stmt[q].sub[1].id] = stmt[p].wrote[1]
        /\ rows[stmt[q].sub[1].id].description = Assigned(stmt[q])
        /\ stmt[p].err = {} /\ stmt[q].err = {}

\* ------------------------------------------------------------------ C11
\* A targeted struct-form update without selection whose updatable fields,
\* the primary key and the version aside, all hold their zero value.
ZeroStruct(s) ==
    /\ Gated(s)
    /\ s.form = "struct"
    /\ s.selects = {}
    /\ \A c \in DBNames :
           (/\ Updatable(c)
            /\ c # PrimaryKey
            /\ ~(findVersionField(schema) /\ c = VersionCol))
               => s.sub[1][c] = 0

\* C11: a targeted struct-form update with no selection in which every
\* updatable field other than the primary key and the version is zero sends
\* no SQL: the table is as it was, the statement carries no error (no
\* ErrOptimisticLock either) and rows-affected is 0, whatever version the
\* caller holds.
ZeroStructUpdateIsNoOp ==
    \A p \in Procs :
        ZeroStruct(stmt[p]) =>
            /\ stmt[p].err = {}
            /\ stmt[p].affected = 0
            /\ ~stmt[p].ran
            /\ stmt[p].to = Unset
            /\ stmt[p].pc \in {"verify", "resolve", "done"}
                   => rows = stmt[p].pre

\* The ORM writes the clock into a column of the statement's model by
\* itself.
StampsAutoTime(s) == schema.autoUpdateTime /\ ~SkipHooks(s)

\* C11 holds where the ORM has no autoUpdateTime column to write.
ZeroStructUpdateIsNoOpNoAutoTime ==
    \A p \in Procs :
        (ZeroStruct(stmt[p]) /\ ~StampsAutoTime(stmt[p])) =>
            /\ stmt[p].err = {}
            /\ stmt[p].affected = 0
            /\ ~stmt[p].ran
            /\ stmt[p].to = Unset
            /\ stmt[p].pc \in {"verify", "resolve", "done"}
                   => rows = stmt[p].pre

\* That case is reached: such an update of a versioned row has come to its
\* end, submitted with a version that is not the persisted one.
ZeroStructUpdateReached ==
    \E p \in Procs :
        /\ ZeroStruct(stmt[p])
        /\ ~StampsAutoTime(stmt[p])
        /\ schema.tagged
        /\ stmt[p].pc = "done"
        /\ rows[stmt[p].sub[1].id].live
        /\ rows[stmt[p].sub[1].id].description # 0
        /\ rows[stmt[p].sub[1].id].version # stmt[p].sub[1].version

\* What the program does for a model with an autoUpdateTime column: the
\* Rewriter adds neither version bump nor version predicate, the ORM sends
\* SET activation = now for the row of the model's key, and where RETURNING
\* is supported the Verifier, with no to-version to compare with, adds
\* ErrOptimisticLock; without RETURNING it reloads the model and adds no
\* error.
ZeroStructWritesAutoTime ==
    \A p \in Procs :
        LET s == stmt[p]
            i == s.sub[1].id
        IN (/\ ZeroStruct(s)
            /\ StampsAutoTime(s)
            /\ findVersionField(schema)
            /\ s.pc = "resolve"
            /\ s.pre[i].live) =>
               /\ s.ran
               /\ s.to = Unset
               /\ s.wrote # <<>>
               /\ \E t \in 1..MaxTick :
                      s.wrote[1] = [s.pre[i] EXCEPT !.activation = t]
               /\ rows[i].version = s.pre[i].version
               /\ s.err = IF supportsReturning /\ s.affected > 0
                          THEN {ErrOptimisticLock} ELSE {}
               /\ s.affected = IF dialect = "mysql" /\ s.wrote[1] = s.pre[i]
                               THEN 0 ELSE 1

\* The failing case is reached: a zero struct of a model with an
\* autoUpdateTime column, holding a stale version, has been written to the
\* row and answered with ErrOptimisticLock.
ZeroStructWritesAutoTimeReached ==
    \E p \in Procs :
        LET s == stmt[p]
        IN /\ ZeroStruct(s)
           /\ StampsAutoTime(s)
           /\ s.pc = "resolve"
           /\ s.wrote # <<>>
           /\ s.wrote[1] # s.pre[s.sub[1].id]
           /\ s.sub[1].version # s.pre[s.sub[1].id].version
           /\ s.err = {ErrOptimisticLock}

\* ------------------------------------------------------------------ C12
\* The caller restricted the update to a selection; column c is selected.
Restricted(s) == s.selects # {} /\ "*" \notin s.selects
Selected(s, c) == c \in s.selects \/ "*" \in s.selects

\* The columns the claim says a struct-form update assigns.
StructColumns(s) ==
    {c \in DBNames :
        /\ Updatable(c)
        /\ c # PrimaryKey
        /\ c # VersionCol
        /\ IF Restricted(s) THEN Selected(s, c)
           ELSE s.sub[1][c] # 0 \/ Selected(s, c)}

\* The columns of the statement's SET clause.
SetColumns(s) == {s.set[k].col : k \in 1..Len(s.set)}

\* A targeted, scoped struct-form update of a versioned model.
StructShaped(s) == Gated(s) /\ s.form = "struct" /\ findVersionField(schema)

\* C12: in struct form the Rewriter's assignment set is exactly the
\* updatable fields, primary key and version aside, that are selected (under
\* a restriction) or non-zero or selected (without one), each with the
\* model's value; the version bump is added exactly when that set is not
\* empty; and the UPDATE writes the selected fields, zero or not, bumps the
\* version and leaves every other field of the row as it was.
StructAssignsSelection ==
    /\ [](\A p \in Procs :
            (StructShaped(stmt[p])
                /\ stmt[p].pc \in {"exec", "verify", "resolve", "done"}) =>
               LET s == stmt[p]
               IN /\ SetColumns(s) \ {VersionCol} = StructColumns(s)
                  /\ \A k \in 1..Len(s.set) :
                         s.set[k].col # VersionCol =>
                             /\ ~s.set[k].expr
                             /\ s.set[k].val = s.sub[1][s.set[k].col]
                  /\ (StructColumns(s) # {}) <=> (VersionCol \in SetColumns(s))
                  /\ (StructColumns(s) # {}) <=> (s.to # Unset))
    /\ [][\A p \in Procs :
            (StructShaped(stmt[p]) /\ stmt[p].pc = "exec" /\ Moves(p)
                /\ rows[stmt[p].sub[1].id].version = stmt[p].sub[1].version) =>
               LET s == stmt[p]
                   i == s.sub[1].id
               IN /\ \A c \in {"description", "code"} :
                         rows'[i][c] = IF c \in StructColumns(s)
                                       THEN s.sub[1][c] ELSE rows[i][c]
                  /\ rows'[i].version = IF StructColumns(s) # {}
                                        THEN rows[i].version + 1
                                        ELSE rows[i].version]_vars

\* C12's case is reached: an update restricted to description, holding the
\* zero value there and a new non-zero code, has written the zero, bumped the
\* version and left code as it was.
StructAssignsSelectionReached ==
    \E p \in Procs :
        LET s == stmt[p]
        IN /\ StructShaped(s)
           /\ s.pc = "done"
           /\ s.selects = {"description"}
           /\ s.sub[1].description = 0
           /\ s.wrote # <<>>
           /\ s.pre[s.sub[1].id].description # 0
           /\ s.sub[1].code # s.pre[s.sub[1].id].code
           /\ s.wrote[1].description = 0
           /\ s.wrote[1].code = s.pre[s.sub[1].id].code
           /\ s.wrote[1].version = s.sub[1].version + 1
           /\ s.err = {}

\* ------------------------------------------------------------------ C13
\* The columns the claim says a map-form update assigns: the caller's keys,
\* resolved through the naming strategy, that are updatable columns of the
\* schema other than the version.
MapColumns(s) ==
    {c \in DBNames :
        /\ Updatable(c)
        /\ c # VersionCol
        /\ \E j \in 1..Len(s.dest) : ColumnName(s.dest[j].col) = c}

\* A targeted, scoped map-form update of a versioned model.
MapShaped(s) == Gated(s) /\ s.form = "map" /\ findVersionField(schema)

Cancelled(s) ==
    /\ s.op = "update"
    /\ s.pc = "done"
    /\ ~s.retry
    /\ s.called
    /\ s.conflict = "nil"

\* C14: when the Resolver's handler returns nil the update is cancelled:
\* ErrOptimisticLock stays on the statement, rows-affected is 0, the
\* in-memory model is exactly what the caller submitted and the update has
\* left the row as it found it.
NilHandlerCancels ==
    \A p \in Procs :
        Cancelled(stmt[p]) =>
            /\ ErrOptimisticLock \in stmt[p].err
            /\ stmt[p].affected = 0
            /\ mem[p] = stmt[p].sub
            /\ stmt[p].wrote # <<>> =>
                   stmt[p].wrote[1] = stmt[p].pre[stmt[p].sub[1].id]

\* C14 for the updates whose SET clause the Rewriter builds itself.
NilHandlerCancelsOwnSet ==
    \A p \in Procs :
        (Cancelled(stmt[p]) /\ stmt[p].form # "set") =>
            /\ ErrOptimisticLock \in stmt[p].err
            /\ stmt[p].affected = 0
            /\ mem[p] = stmt[p].sub
            /\ stmt[p].wrote # <<>> =>
                   stmt[p].wrote[1] = stmt[p].pre[stmt[p].sub[1].id]

\* ------------------------------------------------------------------ C15
\* The Resolver is about to call a handler that returns the row it is given:
\* a scoped, non-dry-run update that carries ErrOptimisticLock.
AtAcceptingHandler(s) ==
    /\ s.op = "update"
    /\ s.pc = "resolve"
    /\ ~s.dryRun
    /\ ~s.unscoped
    /\ ErrOptimisticLock \in s.err
    /\ s.conflict = "current"

\* C15: when the Resolver's handler returns the current row unchanged, the
\* Resolver's step leaves the in-memory model equal to the persisted row
\* (fields and version), rows-affected 0 and ErrOptimisticLock on the
\* statement, and writes nothing to the table.
CurrentHandlerRestores ==
    [][\A p \in Procs :
          (AtAcceptingHandler(stmt[p]) /\ Moves(p)) =>
              LET i == mem[p][1].id
              IN /\ stmt'[p].pc = "done"
                 /\ stmt'[p].called
                 /\ ~stmt'[p].retry
                 /\ mem'[p] = <<AsModel(i, rows'[i])>>
                 /\ stmt'[p].affected = 0
                 /\ ErrOptimisticLock \in stmt'[p].err
                 /\ rows' = rows]_vars

\* C15's case is reached: a handler returned the current row after another
\* observer had changed it; the caller's model, which differed from the row,
\* now holds it.
CurrentHandlerReached ==
    \E p \in Procs :
        LET s == stmt[p]
        IN /\ s.op = "update"
           /\ s.pc = "done"
           /\ s.conflict = "current"
           /\ s.called
           /\ s.form = "struct"
           /\ s.sub[1].version # 0
           /\ mem[p] # s.sub
           /\ mem[p] = <<AsModel(s.sub[1].id, rows[s.sub[1].id])>>
           /\ mem[p][1].version = s.sub[1].version + 1
           /\ ErrOptimisticLock \in s.err
           /\ s.affected = 0

\* ------------------------------------------------------------------ C16
\* The Resolver's retry for a handler that returned the reloaded row with a
\* changed description has come to its end.
Retried(s) ==
    /\ s.op = "update"
    /\ s.retry
    /\ s.pc = "done"
    /\ s.by = "merge"

\* No other writer intervened: the retry's UPDATE found the row as the
\* Resolver's reload had read it, and the row is as the retry left it.
Undisturbed(s) ==
    LET i == s.sub[1].id
    IN /\ AsModel(i, s.pre[i]) = s.seen[1]
       /\ rows[i] = IF s.wrote # <<>> THEN s.wrote[1] ELSE s.pre[i]

\* The retry succeeded: no error, the row holds the successor of the version
\* the reload read and the handler's fields, and the caller's model equals
\* the row.
RetrySucceeded(p) ==
    LET s == stmt[p]
        i == s.sub[1].id
    IN /\ s.err = {}
       /\ s.wrote # <<>>
       /\ rows[i].version = s.seen[1].version + 1
       /\ rows[i].description = s.sub[1].description
       /\ rows[i].code = s.sub[1].code
       /\ mem[p] = <<AsModel(i, rows[i])>>

\* C16: when the handler returns the freshly loaded row with modified fields
\* and no other writer intervenes, the retry succeeds: the error is cleared,
\* the persisted version is the successor of the version the reload read,
\* the persisted fields are the handler's and the caller's model equals the
\* persisted row.
MergeHandlerRetrySucceeds ==
    \A p \in Procs :
        (Retried(stmt[p]) /\ Undisturbed(stmt[p])) => RetrySucceeded(p)

\* C16 for a handler that leaves a non-zero value in the field it changes.
MergeHandlerRetrySucceedsNonZero ==
    \A p \in Procs :
        (Retried(stmt[p]) /\ Undisturbed(stmt[p])
            /\ stmt[p].sub[1].description # 0) => RetrySucceeded(p)

\* The retry of a non-zero merge is reached and has succeeded.
MergeHandlerRetryReached ==
    \E p \in Procs :
        /\ Retried(stmt[p])
        /\ Undisturbed(stmt[p])
        /\ stmt[p].sub[1].description # 0
        /\ stmt[p].orig[1].version # stmt[p].seen[1].version
        /\ RetrySucceeded(p)

\* ------------------------------------------------------------------ C18
\* The Resolver's retry has been rewritten.
RetryRewritten(s) ==
    /\ s.op = "update"
    /\ s.retry
    /\ s.pc \in {"exec", "verify", "resolve", "done"}

\* The retry asserts the version the Resolver's reload read, and it ends
\* with ErrOptimisticLock only if the row was changed after that reload.
GatedOnReload(s) ==
    LET i == s.sub[1].id
    IN /\ \A k \in 1..Len(s.where) :
              s.where[k].col = VersionCol =>
                  s.where[k].val = s.seen[1].version
       /\ (s.pc = "done" /\ ErrOptimisticLock \in s.err) =>
              AsModel(i, s.pre[i]) # s.seen[1]

\* C18: the Resolver's retry is never version-gated against a stale
\* observation: for every handler return value that triggers a retry, the
\* version the retry asserts in its WHERE predicate is the version the
\* Resolver's reload read, so the retry conflicts only if another writer
\* changed the row after that reload.
RetryGatedOnReload ==
    \A p \in Procs : RetryRewritten(stmt[p]) => GatedOnReload(stmt[p])

\* C18 for the handlers that return the row they were given, modified.
RetryGatedOnReloadMerged ==
    \A p \in Procs :
        (RetryRewritten(stmt[p]) /\ stmt[p].by = "merge")
            => GatedOnReload(stmt[p])

\* A retry that conflicted because another writer changed the row between
\* the Resolver's reload and the retry's UPDATE.
RetryGatedOnReloadReached ==
    \E p \in Procs :
        LET s == stmt[p]
        IN /\ RetryRewritten(s)
           /\ s.by = "merge"
           /\ s.pc = "done"
           /\ ErrOptimisticLock \in s.err
           /\ s.pre[s.sub[1].id].version = s.seen[1].version + 1

\* ------------------------------------------------------------------ C17
\* The only case in which the Resolver may call the handler: a scoped,
\* non-dry-run update that carries ErrOptimisticLock and a Conflict clause.
HandlerDue(s) ==
    /\ ~s.dryRun
    /\ ~s.unscoped
    /\ ErrOptimisticLock \in s.err
    /\ s.conflict # "none"

\* C17: the OnVersionMismatch handler is invoked only for a scoped,
\* non-dry-run update on which ErrOptimisticLock is present and to which a
\* Conflict clause is attached; in every other case (no conflict, no clause,
\* dry-run, unscoped) the handler is not called and the Resolver's step
\* leaves the statement, the model and the table as they are.
HandlerOnlyOnConflict ==
    /\ [](\A p \in Procs :
            (stmt[p].called /\ ~stmt[p].retry) => HandlerDue(stmt[p]))
    /\ [][\A p \in Procs :
            (stmt[p].op = "update" /\ stmt[p].pc = "resolve" /\ Moves(p)) =>
                /\ stmt'[p].called => HandlerDue(stmt[p])
                /\ ~HandlerDue(stmt[p]) =>
                       (Leaves(p) /\ ~stmt'[p].called)]_vars

\* C17's case is reached: an unscoped update with a Conflict clause,
\* submitted with a stale version, has passed the Resolver uncalled.
HandlerOnlyOnConflictReached ==
    \E p \in Procs :
        LET s == stmt[p]
        IN /\ s.op = "update"
           /\ s.pc = "done"
           /\ s.conflict # "none"
           /\ s.unscoped
           /\ schema.tagged
           /\ s.sub[1].version # s.pre[s.sub[1].id].version
           /\ ~s.called

\* ------------------------------------------------------------------ C19
\* The Verifier is about to check a targeted update of a versioned model
\* that affected a row, with RETURNING in use.
AtReturningCheck(s) ==
    /\ Gated(s)
    /\ s.pc = "verify"
    /\ findVersionField(schema)
    /\ supportsReturning
    /\ s.returning
    /\ s.affected > 0

\* The version the claim expects on the model: the successor of the observed
\* one for an integer, the generated value otherwise.
ExpectedVersion(s) ==
    IF isNumericKind(schema.ftype) THEN s.sub[1].version + 1 ELSE s.to.v

\* C19: with RETURNING in use, after a targeted update that affected at
\* least one row the Verifier raises ErrOptimisticLock exactly when the
\* version now on the in-memory model differs from the expected one:
\* observed+1 for an integer version, the generated value for UUID/ULID and
\* for a timestamp.
ReturningVerifiesVersion ==
    [][\A p \in Procs :
          (AtReturningCheck(stmt[p]) /\ Moves(p)) =>
              /\ (ErrOptimisticLock \in stmt'[p].err)
                     <=> (mem[p][1].version # ExpectedVersion(stmt[p]))
              /\ mem'[p] = mem[p]
              /\ rows' = rows]_vars

\* C19's case is reached, both ways: a UUID/ULID update came back with the
\* generated version and no error, or with another version and
\* ErrOptimisticLock.
ReturningVerifiesVersionReached ==
    \E p \in Procs :
        LET s == stmt[p]
        IN /\ Gated(s)
           /\ s.pc = "resolve"
           /\ schema.ftype = "bytes16"
           /\ s.returning
           /\ s.affected = 1
           /\ s.form = "struct"
           /\ s.err = {}
           /\ mem[p][1].version = s.to.v
           /\ mem[p][1].version # s.sub[1].version

\* ------------------------------------------------------------------ C20
\* The Verifier is about to check a targeted update of a versioned model
\* that affected a row, without RETURNING.
AtReloadCheck(s) ==
    /\ Gated(s)
    /\ s.pc = "verify"
    /\ findVersionField(schema)
    /\ (dialect = "mysql" \/ disableReturning)
    /\ s.affected > 0

\* C20: when the dialect is mysql or the disable-returning option is set,
\* no statement ever carries a RETURNING clause, and after a targeted update
\* that affected at least one row the Verifier reloads the row by primary
\* key and overwrites the in-memory model, which then equals the persisted
\* row, version included; it raises no error and writes nothing.
NoReturningReloads ==
    /\ []((dialect = "mysql" \/ disableReturning) =>
            \A p \in Procs : ~stmt[p].returning)
    /\ [][\A p \in Procs :
            (AtReloadCheck(stmt[p]) /\ Moves(p)) =>
                LET i == stmt[p].sub[1].id
                IN /\ mem'[p] = <<AsModel(i, rows'[i])>>
                   /\ rows' = rows
                   /\ stmt'[p].err = stmt[p].err]_vars

\* C20's case is reached: with RETURNING disabled by the option, a map-form
\* update has written the row and the model, which the ORM had not changed,
\* holds the row with its new version.
NoReturningReloadsReached ==
    \E p \in Procs :
        LET s == stmt[p]
        IN /\ Gated(s)
           /\ s.pc = "resolve"
           /\ findVersionField(schema)
           /\ disableReturning
           /\ dialect # "mysql"
           /\ s.form = "map"
           /\ s.affected = 1
           /\ s.err = {}
           /\ mem[p] # s.sub
           /\ mem[p] = <<AsModel(s.sub[1].id, rows[s.sub[1].id])>>
           /\ mem[p][1].version = s.sub[1].version + 1

\* ------------------------------------------------------------------ C21
\* The assignments of a SET clause to the version column.
Bumps(set) == {k \in 1..Len(set) : set[k].col = ColumnName(VersionCol)}

\* The equality predicates of a WHERE clause on the version column.
VersionPredicates(where) ==
    {k \in 1..Len(where) : /\ where[k].kind = "eq"
                           /\ eqColumnName(where[k]) = ColumnName(VersionCol)}

\* The before-update hook has run twice on the statement, and the first
\* run rewrote it.
Reentered(s) ==
    /\ s.op = "update"
    /\ s.entries = 2
    /\ s.first[1].to # Unset

\* C21: a second run of the before-update hook on a statement leaves it as
\* the first run left it: the same SET and WHERE clauses, with one version
\* bump and one version predicate, and the same from- and to-version.
RewriterIdempotent ==
    \A p \in Procs :
        LET s == stmt[p]
        IN Reentered(s) =>
            /\ Rewritten(s) = s.first[1]
            /\ Cardinality(Bumps(s.set)) = 1
            /\ Cardinality(VersionPredicates(s.where)) = 1


\* C21 for the statements whose SET clause the plugin builds itself.
RewriterIdempotentOwnSet ==
    \A p \in Procs :
        LET s == stmt[p]
        IN (Reentered(s) /\ s.form # "set") =>
            /\ Rewritten(s) = s.first[1]
            /\ Cardinality(Bumps(s.set)) = 1
            /\ Cardinality(VersionPredicates(s.where)) = 1


\* ------------------------------------------------------------------ C22
\* The positions of the model at which a callback of the update chain runs.
HookPositions == {"before", "exec", "verify", "resolve"}

\* The position whose callback comes first in the update chain.
FirstHook ==
    CHOOSE a \in HookPositions :
        \A b \in HookPositions :
            Position(UpdateChain, HookOf(a)) <= Position(UpdateChain, HookOf(b))

\* The position whose callback is the next one in the update chain after
\* the callback of position a; "done" after the last one.
NextHook(a) ==
    LET later == {b \in HookPositions :
                     Position(UpdateChain, HookOf(b)) >
                         Position(UpdateChain, HookOf(a))}
    IN IF later = {} THEN "done"
       ELSE CHOOSE b \in later :
                \A c \in later :
                    Position(UpdateChain, HookOf(b)) <=
                        Position(UpdateChain, HookOf(c))

\* The Resolver hands the resolved object to a new statement.
Reissued(p) ==
    /\ stmt[p].pc = "resolve"
    /\ ~stmt[p].retry
    /\ stmt'[p].retry

\* The registrations of Initialize place the Rewriter in front of the ORM's
\* execution and the Verifier and the Resolver, in this order, behind it.
ChainInOrder ==
    /\ UpdateChain # <<>>
    /\ \A a \in HookPositions : Position(UpdateChain, HookOf(a)) # 0
    /\ FirstHook = "before"
    /\ NextHook("before") = "exec"
    /\ NextHook("exec") = "verify"
    /\ NextHook("verify") = "resolve"
    /\ NextHook("resolve") = "done"

\* C22: the callbacks of an update statement run in the order Rewriter, ORM
\* execution, Verifier, Resolver, none left out: a statement starts at the
\* Rewriter, every step takes it to the callback that the registrations of
\* Initialize place next in the update chain, and only the Resolver ends it.
HooksRunInOrder ==
    /\ []ChainInOrder
    /\ [][\A p \in Procs :
             (Moves(p) /\ (stmt[p].op = "update" \/ stmt'[p].op = "update"))
             => IF stmt[p].pc = "idle" \/ Reissued(p)
                THEN stmt'[p].pc = FirstHook
                ELSE IF stmt[p].pc \in HookPositions
                THEN stmt'[p].pc = NextHook(stmt[p].pc)
                ELSE stmt[p].pc = "done" /\ stmt'[p].pc = "idle"]_vars

\* A conflicting update has run through the four callbacks, the Resolver
\* having called the handler.
HooksRunInOrderReached ==
    \E p \in Procs :
        /\ stmt[p].op = "update"
        /\ stmt[p].pc = "done"
        /\ ~stmt[p].retry
        /\ stmt[p].called
        /\ ErrOptimisticLock \in stmt[p].err


\* ------------------------------------------------------------------ C23
\* The execution of the statement failed in the driver.
ExecutionFailed(s) ==
    /\ s.op = "update"
    /\ ~s.retry
    /\ s.pc \in {"verify", "resolve", "done"}
    /\ s.err \cap {ErrDriver, ErrBusy} # {}

\* C23: after an execution that failed with an error other than the
\* conflict signal, the Verifier adds no ErrOptimisticLock and the Resolver
\* does not call the handler.
FailedExecutionLeftAlone ==
    \A p \in Procs :
        ExecutionFailed(stmt[p]) =>
            /\ ErrOptimisticLock \notin stmt[p].err
            /\ ~stmt[p].called


\* ------------------------------------------------------------------ C24
\* The hook of observer p is inside the ULID entropy generator.
InGenerator(p) == stmt[p].entropy = "in"

\* C24: the ULID entropy generator is never entered by two goroutines at
\* once.
EntropyExclusive ==
    \A p, q \in Procs : (InGenerator(p) /\ InGenerator(q)) => p = q

\* No two live rows carry the same ULID version.
UlidsDistinct ==
    \A i, j \in Ids :
        (rows[i].live /\ rows[j].live /\ rows[i].version = rows[j].version)
            => i = j


\* ------------------------------------------------------------------ C25
\* The version-tagged field is of a type the plugin has no version scheme
\* for.
Unrecognized(sch) ==
    /\ sch.tagged
    /\ ~isNumericKind(sch.ftype)
    /\ sch.ftype \notin {"bytes16", "time"}

\* C25: a model whose version-tagged field is of an unrecognized type is
\* treated as un-versioned: no statement on it ends with ErrOptimisticLock
\* and an update of it is given no version bump and no version predicate.
UnrecognizedTypeIgnored ==
    \A p \in Procs :
        LET s == stmt[p]
        IN Unrecognized(schema) =>
            /\ ErrOptimisticLock \notin s.err
            /\ s.op = "update" => /\ Bumps(s.set) = {}
                                  /\ VersionPredicates(s.where) = {}


\* ------------------------------------------------------------------ C26
\* The generator the tag parameter names, if it names one; otherwise the
\* one the type name points to.
ChosenGenerator(sch) ==
    IF paramIs(sch, "uuid") THEN "uuid"
    ELSE IF paramIs(sch, "ulid") THEN "ulid"
    ELSE IF ContainsUlid(ToLower(sch.tyname)) THEN "ulid"
    ELSE "uuid"

\* C26: a 16-byte version is taken from the generator the tag parameter
\* names (uuid or ulid) whatever the type is called, and only without a
\* parameter from the one the type name points to, by the create hook and
\* by the update hook alike.
GeneratorFollowsTag ==
    \A p \in Procs :
        stmt[p].drew # "none" => stmt[p].drew = ChosenGenerator(schema)


\* ------------------------------------------------------------------ C27
\* The version-tagged field is of a type the plugin has a version scheme
\* for.
Versioned(sch) == sch.tagged /\ ~Unrecognized(sch)

\* A scoped, non-dry-run create of a versioned model at its after-create
\* hook.
AtVerifyCreate(s) ==
    /\ s.op = "create"
    /\ s.pc = "verify"
    /\ ~s.dryRun
    /\ ~s.unscoped
    /\ Versioned(schema)

\* Some created instance has a zero version, or an integer version other
\* than 1.
BadInitialVersion(ms) ==
    \E k \in 1..Len(ms) :
        \/ ms[k].version = 0
        \/ isNumericKind(schema.ftype) /\ ms[k].version # 1

\* C27: the after-create hook of a scoped, non-dry-run create of a versioned
\* model raises ErrOptimisticLock exactly when some created instance has a
\* zero version or an integer version other than 1, and changes nothing
\* else; a create whose seeded values are still in place raises nothing.
VerifyCreateChecksSeed ==
    /\ [][\A p \in Procs :
             (AtVerifyCreate(stmt[p]) /\ Moves(p)) =>
                 /\ (ErrOptimisticLock \in stmt'[p].err)
                        <=> BadInitialVersion(mem[p])
                 /\ stmt'[p] = [stmt[p] EXCEPT !.pc = "done",
                                               !.err = stmt'[p].err]
                 /\ mem'[p] = mem[p]
                 /\ rows' = rows]_vars
    /\ [](\A p \in Procs :
             (Seeded(stmt[p]) /\ Versioned(schema) /\ stmt[p].pc = "done"
                  /\ ~stmt[p].hooked)
                 => ErrOptimisticLock \notin stmt[p].err)

\* C27's cases are reached: a batch create of an integer-versioned model
\* one of whose instances came to the after-create hook with version 2 has
\* ended with ErrOptimisticLock.
VerifyCreateChecksSeedReached ==
    \E p \in Procs :
        /\ Seeded(stmt[p])
        /\ stmt[p].pc = "done"
        /\ isNumericKind(schema.ftype)
        /\ stmt[p].hooked
        /\ \E k \in 1..Len(mem[p]) : mem[p][k].version > 1
        /\ ErrOptimisticLock \in stmt[p].err


\* ------------------------------------------------------------------ C28
\* A create issued in dry-run or unscoped mode.
SkippedCreate(s) == s.op = "create" /\ (s.dryRun \/ s.unscoped)

\* C28: a create in dry-run or unscoped mode skips both create phases: the
\* seeding hook and the after-create hook leave the statement, the model
\* (with the version the caller put in it) and the table as they are, no
\* generator is used and ErrOptimisticLock is never raised.
SkippedCreateUntouched ==
    /\ [](\A p \in Procs :
             SkippedCreate(stmt[p]) =>
                 /\ ErrOptimisticLock \notin stmt[p].err
                 /\ stmt[p].drew = "none"
                 /\ ~stmt[p].hooked =>
                        \A k \in 1..Len(mem[p]) :
                            mem[p][k].version = stmt[p].sub[k].version)
    /\ [][\A p \in Procs :
             (SkippedCreate(stmt[p]) /\ AtCreateHook(stmt[p]) /\ Moves(p))
                 => Leaves(p)]_vars

\* C28's case is reached: an unscoped create of an integer-versioned model
\* has stored the version the caller had put in the field, which is neither
\* 0 nor 1, and has come back without error.
SkippedCreateReached ==
    \E p \in Procs :
        LET s == stmt[p]
        IN /\ SkippedCreate(s)
           /\ s.unscoped
           /\ s.pc = "done"
           /\ isNumericKind(schema.ftype)
           /\ ~s.hooked
           /\ s.sub[1].version > 1
           /\ mem[p][1].id \in Ids
           /\ rows[mem[p][1].id].version = s.sub[1].version
           /\ s.err = {}


\* What a chained handler returns for the object it is given, as a value:
\* nil (<<>>), the object itself, or the object with one field changed.
Returns(h, hv, xs) ==
    IF xs = <<>> THEN <<>>
    ELSE CASE h = "current" -> xs
           [] h = "touch"   -> <<[xs[1] EXCEPT !.description = hv]>>
           [] h = "copy"    -> <<[xs[1] EXCEPT !.code = hv]>>
           [] OTHER         -> <<>>

\* The Resolver is about to call the handler merged from two Conflict
\* clauses: the row it reloads is there and the statement lost on version.
\* Neither handler panics on what it is given.
CallsMergedPair(p) ==
    /\ stmt[p].pc = "resolve"
    /\ stmt[p].conflict = "chained"
    /\ Len(stmt[p].hs) = 2
    /\ resolveGuard(stmt[p])
    /\ reloadByPK(mem[p][1]).found
    /\ ~HandlerPanics(stmt[p], reloadByPK(mem[p][1]).model, mem[p][1])

\* C29: when two Conflict clauses with handlers h1 and h2 are merged, a
\* conflict calls h1 with the current row and the original diff, then h2
\* with h1's output and the diff between the original current row and h1's
\* output, and what h2 returns is the resolution: nil cancels, anything else
\* becomes the caller's model.
MergedPairFeedsForward ==
    [][\A p \in Procs : CallsMergedPair(p) =>
          LET s   == stmt[p]
              cur == <<reloadByPK(mem[p][1]).model>>
              d0  == cmpDiff(mem[p], cur, FALSE)
              o1  == Returns(s.hs[1], s.hval, cur)
              o2  == Returns(s.hs[2], s.hval, o1)
          IN /\ stmt'[p].calls =
                  <<[h |-> s.hs[1], arg |-> cur, diff |-> d0],
                    [h |-> s.hs[2], arg |-> o1,
                     diff |-> cmpDiff(cur, o1, TRUE)]>>
             /\ IF o2 = <<>> THEN mem'[p] = mem[p] /\ stmt'[p].pc = "done"
                ELSE mem'[p] = o2]_vars


\* The handler merged from a, b and c, (a with b) with c when left is TRUE
\* and a with (b with c) otherwise.
Grouped(hs, left) ==
    LET ab == MergeClause(MergeClause(<<>>, Fn(hs[1])), Fn(hs[2]))
        bc == MergeClause(MergeClause(<<>>, Fn(hs[2])), Fn(hs[3]))
    IN IF left THEN MergeClause(ab, Fn(hs[3]))[1]
       ELSE MergeClause(MergeClause(<<>>, Fn(hs[1])), bc[1])[1]

\* C30: merging Conflict clauses is associative: whenever the Resolver is
\* about to call a handler merged from a, b and c, the handler grouped as
\* (a with b) with c and the handler grouped as a with (b with c) make the
\* same handler calls with the same arguments and return the same result
\* (or panic alike) on the reloaded row and its diff.
MergeAssociative ==
    \A p \in Procs :
        (/\ stmt[p].pc = "resolve"
         /\ stmt[p].conflict = "chained"
         /\ Len(stmt[p].hs) = 3
         /\ resolveGuard(stmt[p])
         /\ reloadByPK(mem[p][1]).found) =>
        LET s   == stmt[p]
            cur == reloadByPK(mem[p][1]).model
            d0  == cmpDiff(mem[p], <<cur>>, FALSE)
            l   == Invoke(Grouped(s.hs, TRUE), s.hval, <<cur>>, 1, d0)
            r   == Invoke(Grouped(s.hs, FALSE), s.hval, <<cur>>, 1, d0)
        IN /\ s.chain[1] \in {Grouped(s.hs, TRUE), Grouped(s.hs, FALSE)}
           /\ l.calls = r.calls
           /\ l.panic = r.panic
           /\ Deref(l.heap, l.out) = Deref(r.heap, r.out)


\* The Resolver is about to call the caller's handler: the statement lost on
\* version, a Conflict clause is attached and the reload finds the row.
CallsHandler(p) ==
    /\ stmt[p].pc = "resolve"
    /\ resolveGuard(stmt[p])
    /\ reloadByPK(mem[p][1]).found

\* A diff keyed by field path: one entry for each field in which the two
\* models differ, none at the root.
DiffByField(m, current) ==
    [root |-> FALSE, x |-> <<>>, y |-> <<>>,
     fields |-> {[key |-> f, from |-> m[f], to |-> current[f]] :
                    f \in {g \in DBNames : m[g] # current[g]}}]

\* C31: the diff passed to OnVersionMismatch is keyed by field path and has
\* exactly one entry for each model field whose value differs between the
\* model the caller tried to write (from) and the freshly loaded row (to);
\* equal fields have no entry.
DiffListsDifferingFields ==
    [][\A p \in Procs : CallsHandler(p) =>
          stmt'[p].calls[1].diff =
              DiffByField(mem[p][1], reloadByPK(mem[p][1]).model)]_vars


\* The places of the conditions of type clause.Eq on column c in a WHERE
\* clause: the equalities the Rewriter recognises.
EqOn(where, c) ==
    {k \in 1..Len(where) : /\ where[k].kind = "eq"
                           /\ eqColumnName(where[k]) = ColumnName(c)}

\* The places of all equality predicates on column c in a WHERE clause,
\* written as clause.Eq or as SQL text (clause.Expr, "id = ?").
PredsOn(where, c) ==
    {k \in 1..Len(where) : ColumnName(where[k].col) = ColumnName(c)}

\* The Rewriter is about to rewrite p's targeted update, whose assignment
\* set is not empty.
Rewrites(p) ==
    /\ stmt[p].pc = "before"
    /\ stmt[p].op = "update"
    /\ rewriteGuard(stmt[p], mem[p])
    /\ \/ stmt[p].hasSet
       \/ Len(collectAssignments(stmt[p], mem[p][1])) > 0

\* What C32 says of the predicates the caller supplied and of the version:
\* the version column is bound to the observed version and every predicate
\* of the caller is still there.
WhereKeepsAndBinds(p) ==
    LET w  == stmt[p].where
        w2 == stmt'[p].where
    IN /\ Len(w2) > Len(w)
       /\ w2[Len(w2)] = Eq(VersionCol, mem[p][1].version)
       /\ PredsOn(w2, VersionCol) = PredsOn(w, VersionCol) \cup {Len(w2)}
       /\ \A k \in 1..Len(w) : w2[k] = w[k]

\* C32 as stated: after the Rewriter has rewritten a targeted update with a
\* non-empty assignment set, WHERE holds an equality on the primary key
\* bound to the in-memory value, an equality binding the version column to
\* the observed version, and every predicate the caller supplied, and a
\* primary-key equality the caller supplied, in whatever way it was
\* written, is not joined by a second one.
WhereBindsOwnKey ==
    [][\A p \in Procs : Rewrites(p) /\ Moves(p) =>
          LET w  == stmt[p].where
              w2 == stmt'[p].where
          IN /\ \E k \in PredsOn(w2, PrimaryKey) : w2[k].val = mem[p][1].id
             /\ WhereKeepsAndBinds(p)
             /\ PredsOn(w, PrimaryKey) # {} =>
                    PredsOn(w2, PrimaryKey) = PredsOn(w, PrimaryKey)]_vars

\* C32, amended: after the Rewriter has rewritten a targeted update with a
\* non-empty assignment set, WHERE holds every predicate the caller
\* supplied, followed by what the Rewriter added: nothing on the primary key
\* when the caller supplied a condition of type clause.Eq on it (whatever
\* value that binds), else exactly one equality binding the primary key to
\* the in-memory value, also when the caller had written a primary-key
\* equality as SQL text; and, last, one equality binding the version column
\* to the observed version.
WhereBindsKeyOnce ==
    [][\A p \in Procs : Rewrites(p) /\ Moves(p) =>
          LET w  == stmt[p].where
              w2 == stmt'[p].where
          IN /\ IF EqOn(w, PrimaryKey) # {}
                THEN /\ PredsOn(w2, PrimaryKey) = PredsOn(w, PrimaryKey)
                     /\ Len(w2) = Len(w) + 1
                ELSE /\ PredsOn(w2, PrimaryKey)
                            = PredsOn(w, PrimaryKey) \cup {Len(w) + 1}
                     /\ Len(w2) = Len(w) + 2
                     /\ w2[Len(w) + 1] = Eq(PrimaryKey, mem[p][1].id)
             /\ WhereKeepsAndBinds(p)]_vars

\* C32's case is reached: the Rewriter has rewritten an update whose caller
\* had written an equality on the primary key as SQL text, with a value
\* other than the model's; the clause now holds the caller's predicate, the
\* in-memory key and the version predicate.
WhereBindsKeyOnceReached ==
    \E p \in Procs :
        LET s == stmt[p]
        IN /\ s.pc = "exec" /\ s.op = "update" /\ s.to # Unset
           /\ Len(s.where) = 3
           /\ s.where[1].kind = "expr"
           /\ s.where[1].col = PrimaryKey
           /\ s.where[1].val # mem[p][1].id
           /\ s.where[2] = Eq(PrimaryKey, mem[p][1].id)
           /\ s.where[3] = Eq(VersionCol, mem[p][1].version)

\* The other side of C32's case is reached as well: the caller had supplied
\* a clause.Eq on the primary key with a value other than the model's, and
\* the clause holds it and the version predicate, no second key.
WhereKeepsCallerKeyReached ==
    \E p \in Procs :
        LET s == stmt[p]
        IN /\ s.pc = "exec" /\ s.op = "update" /\ s.to # Unset
           /\ Len(s.where) = 2
           /\ s.where[1].kind = "eq"
           /\ s.where[1].col = PrimaryKey
           /\ s.where[1].val # mem[p][1].id
           /\ s.where[2] = Eq(VersionCol, mem[p][1].version)


\* The Rewriter is about to run on p's targeted update and computes an
\* empty assignment set for it.
RewritesNothing(p) ==
    /\ stmt[p].pc = "before"
    /\ stmt[p].op = "update"
    /\ rewriteGuard(stmt[p], mem[p])
    /\ ~stmt[p].hasSet
    /\ Len(collectAssignments(stmt[p], mem[p][1])) = 0

\* C33 as stated: when the computed assignment set is empty the Rewriter
\* contributes nothing: every clause and option of the statement is as the
\* caller built it (the from-version scratch key aside) and no to-version
\* is recorded.
EmptySetLeavesStatement ==
    [][\A p \in Procs : RewritesNothing(p) /\ Moves(p) =>
          /\ stmt'[p] = [stmt[p] EXCEPT !.pc = stmt'[p].pc,
                                        !.entries = stmt'[p].entries,
                                        !.from = stmt'[p].from]
          /\ stmt'[p].to = Unset]_vars

\* C33, amended: when the computed assignment set is empty the Rewriter adds
\* no SET clause, no predicate and no RETURNING clause and records no
\* to-version; the statement is as the caller built it except that the
\* version column has joined its omitted columns and the from-version is
\* recorded.
EmptySetOnlyOmitsVersion ==
    [][\A p \in Procs : RewritesNothing(p) /\ Moves(p) =>
          /\ stmt'[p] = [stmt[p] EXCEPT
                            !.pc = stmt'[p].pc,
                            !.entries = stmt'[p].entries,
                            !.from = Val(mem[p][1].version),
                            !.omits = @ \cup {VersionCol}]
          /\ stmt'[p].to = Unset
          /\ mem'[p] = mem[p]
          /\ rows' = rows]_vars

\* C33's case is reached: the Rewriter has run on a targeted update of a
\* versioned model that assigns nothing and has left it without a SET
\* clause.
EmptySetOnlyOmitsVersionReached ==
    \E p \in Procs :
        LET s == stmt[p]
        IN /\ s.pc = "exec" /\ s.op = "update" /\ s.entries = 1
           /\ ~s.hasSet /\ s.from # Unset /\ s.to = Unset
           /\ VersionCol \in s.omits
           /\ mem[p][1].id # 0


\* C34: an update is classified as targeted exactly when the submitted model
\* is a single instance with a non-zero primary key or a non-empty sequence
\* in which every element has a non-zero primary key; a sequence with an
\* element whose primary key is zero is not targeted.
TargetedIffAllKeyed ==
    \A p \in Procs :
        (stmt[p].op = "update" /\ stmt[p].entries = 0
            /\ stmt[p].pc \in {"exec", "done"}) =>
        (stmt[p].pc = "exec" <=>
            IF stmt[p].slice
            THEN /\ Len(mem[p]) > 0
                 /\ \A i \in 1..Len(mem[p]) : mem[p][i].id # 0
            ELSE mem[p][1].id # 0)


\* C35: for a version field of any signed or unsigned integer type, create
\* seeds 1 and passes the after-create check, and a following successful
\* targeted update passes the Verifier with new version = observed + 1; no
\* hook fails or crashes.
IntegerVersionsWork ==
    isNumericKind(schema.ftype) =>
        \A p \in Procs :
            LET s == stmt[p]
            IN /\ s.pc # "panic"
               /\ (s.op = "create" /\ s.pc = "done"
                       /\ ~(s.dryRun \/ s.unscoped)) =>
                      /\ s.err = {}
                      /\ \A i \in 1..Len(mem[p]) : mem[p][i].version = 1
               /\ (s.op = "update" /\ s.pc \in {"resolve", "done"}
                       /\ ~(s.dryRun \/ s.unscoped)
                       /\ s.ran /\ s.affected = 1) =>
                      /\ s.err = {}
                      /\ s.from # Unset
                      /\ mem[p][1].version = s.from.v + 1


\* The Resolver is about to run on a statement that lost on version and has
\* a Conflict clause attached, and its reload will fail: the row of the
\* model's primary key is gone, or the statement's context is cancelled.
ResolvesGoneRow(p) ==
    /\ stmt[p].pc = "resolve"
    /\ stmt[p].op = "update"
    /\ resolveGuard(stmt[p])
    /\ \/ ~rows[mem[p][1].id].live
       \/ ErrDriver \in stmt[p].err
    /\ Moves(p)

\* C36: if the Resolver's reload of the row by primary key fails, the
\* handler is not invoked, the original ErrOptimisticLock stays on the
\* statement with no reload error added, and the in-memory model and
\* rows-affected are unchanged.
ReloadFailureKeepsConflict ==
    [][\A p \in Procs : ResolvesGoneRow(p) =>
          /\ ~stmt'[p].called
          /\ stmt'[p].calls = <<>>
          /\ ~stmt'[p].retry
          /\ stmt'[p].err = stmt[p].err
          /\ ErrOptimisticLock \in stmt'[p].err
          /\ ErrRecordNotFound \notin stmt'[p].err
          /\ stmt'[p].affected = stmt[p].affected
          /\ mem'[p] = mem[p]
          /\ rows' = rows]_vars

\* C36's case is reached: the Resolver has run on a conflicting update with
\* a handler attached whose row had been deleted, and the statement is done
\* with ErrOptimisticLock and without a handler call.
ReloadFailureKeepsConflictReached ==
    \E p \in Procs :
        LET s == stmt[p]
        IN /\ s.pc = "done" /\ s.op = "update"
           /\ s.conflict # "none"
           /\ ErrOptimisticLock \in s.err
           /\ ~s.called
           /\ ~rows[mem[p][1].id].live


\* C37: for a timestamp version field, every successful targeted update
\* leaves a persisted version different from the prior persisted version,
\* whatever the clock returns, including the reading it returned for the
\* write before.
TimeVersionAlwaysChanges ==
    \A p \in Procs :
        LET s == stmt[p]
            i == s.sub[1].id
        IN (/\ Gated(s)
            /\ Assigns(s)
            /\ schema.tagged
            /\ schema.ftype = "time"
            /\ s.pc = "done"
            /\ s.err = {}
            /\ s.affected = 1) =>
               rows[i].version # s.pre[i].version


\* C38: a single caller update invokes the OnVersionMismatch handler at most
\* once and always terminates: the Resolver's retry carries no Conflict
\* clause, the Resolver's step in the retry does nothing (no reload, no
\* handler call, no further retry) and leaves the retry's error on the
\* statement, the handler is only ever called in a statement that is not a
\* retry, and every update that has entered the chain comes to its end.
RetryEndsResolution ==
    /\ [](\A p \in Procs :
            stmt[p].retry =>
                /\ stmt[p].conflict = "none"
                /\ stmt[p].chain = <<>>
                /\ Len(stmt[p].calls) <= 1)
    /\ [][\A p \in Procs :
            (stmt[p].op = "update" /\ stmt[p].pc = "resolve" /\ Moves(p)) =>
                /\ stmt[p].retry => (Leaves(p) /\ stmt'[p].pc = "done")
                /\ stmt'[p].calls # stmt[p].calls =>
                       (~stmt[p].retry /\ ~stmt[p].called)]_vars
    /\ \A p \in {"m"} :
           (stmt[p].op = "update" /\ stmt[p].pc = "before" /\ ~stmt[p].retry)
               ~> (stmt[p].op = "update" /\ stmt[p].pc = "done")

\* C38's case is reached: the Resolver's retry has itself ended with
\* ErrOptimisticLock, which is on the statement returned to the caller
\* after a single handler call.
RetryEndsResolutionReached ==
    \E p \in Procs :
        LET s == stmt[p]
        IN /\ s.pc = "done" /\ s.op = "update"
           /\ s.retry /\ s.called
           /\ Len(s.calls) = 1
           /\ ErrOptimisticLock \in s.err
           /\ s.affected = 0


\* C39: when a targeted update's statement already carries a SET clause at
\* the time the Rewriter runs, the SET clause stored on the statement after
\* the Rewriter holds the caller's assignments plus exactly one assignment
\* to the version column, which agrees with the to-version recorded, and
\* the version predicate is in WHERE.
CallerSetGetsOneBump ==
    [][\A p \in Procs :
          (/\ stmt[p].pc = "before"
           /\ stmt[p].op = "update"
           /\ stmt[p].hasSet
           /\ rewriteGuard(stmt[p], mem[p])
           /\ Moves(p)) =>
          LET set == stmt[p].set
              out == stmt'[p].set
              to  == stmt'[p].to
          IN /\ to # Unset
             /\ Len(out) = Len(set) + 1
             /\ SubSeq(out, 1, Len(set)) = set
             /\ Bumps(out) = {Len(out)}
             /\ out[Len(out)].expr = (to.tag = "expr")
             /\ out[Len(out)].val = to.v
             /\ Cardinality(VersionPredicates(stmt'[p].where)) = 1
             /\ \A k \in VersionPredicates(stmt'[p].where) :
                    stmt'[p].where[k].val = mem[p][1].version]_vars
====
